---- MODULE Spec2Model ----
(***************************************************************************)
(* Model of the Ranger policy converter (ranger_policy_migration_v2.py):   *)
(* the permission translators, the HDFS path classifier, the synthesis of  *)
(* Ozone volume/bucket/key policies per FID, the Hive policy filter and    *)
(* the cleanup selector.                                                   *)
(*                                                                         *)
(* Python strings on which the code does string work (paths, names, urls)  *)
(* are sequences of tokens.  A token is a block of characters that holds   *)
(* no separator; the separators "/", "_", ",", ":", " " are tokens of      *)
(* their own.  So "/data/fid2/raw" is <<"/","data","/","fid2","/","raw">>  *)
(* and "fid20" is <<"fid2","0">>, of which "fid2" is a proper prefix.      *)
(* Principal names and access types are never cut up by the code and stay  *)
(* TLA+ strings.                                                           *)
(***************************************************************************)
EXTENDS Integers, Sequences, FiniteSets, TLC

VARIABLES
    pc,                 \* position of the run
    hashSeed,           \* the process's hash seed: decides list(set(..)) order
    hdfs_accesses,      \* argument of convert_permissions_hdfs_to_ozone
    posix_perms,        \* argument of convert_posix_to_ozone_permissions
    ozone_accesses,     \* result of convert_permissions_hdfs_to_ozone
    posix_accesses,     \* result of convert_posix_to_ozone_permissions
    fid,                \* argument of convert_hdfs_policies_for_fid
    hdfs_policies,      \* the HDFS source policies handed to the conversion
    ozone_policies,     \* result of convert_hdfs_policies_for_fid
    prev_ozone_policies, \* result of the run before, when the conversion is run again
    config,             \* self.config: the fallback switch and the keytab settings
    world,              \* the HDFS namespace behind the Filesystem ACL Provider
    include_fids,       \* --fids
    exclude_fids,       \* --exclude-fids
    acl_fallback_enabled, \* local of convert_all_hdfs_policies
    fids_to_process,    \* local of convert_all_hdfs_policies (sorted)
    fid_index,          \* position of the loop over fids_to_process
    all_ozone_policies, \* local of convert_all_hdfs_policies
    converted_ozone_policies, \* self.converted_ozone_policies
    fb,                 \* locals of create_ozone_policies_from_hdfs_acls
    events,             \* history: calls made (kinit, provider commands, conversions)
    hive_policies,      \* the exported Hive policies
    include_databases,  \* --databases
    exclude_databases,  \* --exclude-databases
    policies_to_delete, \* first result of get_policies_for_cleanup
    policies_to_keep,   \* second result of get_policies_for_cleanup
    filtered_hive_policies, \* self.filtered_hive_policies
    cloned_hive_policies,   \* self.cloned_hive_policies
    hive_policy,        \* argument of the functions of one Hive policy
    verdict,            \* results of the selection functions, or the warnings of a clone
    clone_result,       \* result of clone_hive_policy
    src_path,           \* argument of the functions of one path
    path_result,        \* results of extract_fid_from_path and of the classification
    action,             \* args.action
    response,           \* the operator's answer to the confirmation prompt
    all_policies_to_import, \* local of main
    results,            \* local of cleanup_hive_policies / import_policies
    loop_index,         \* position of the loop over the policies
    store_log           \* history: displays, prompts and the calls sent to Ranger

vars == <<pc, hashSeed, hdfs_accesses, posix_perms, ozone_accesses, posix_accesses,
          fid, hdfs_policies, ozone_policies, prev_ozone_policies,
          config, world, include_fids, exclude_fids, acl_fallback_enabled,
          fids_to_process, fid_index, all_ozone_policies, converted_ozone_policies,
          fb, events,
          hive_policies, include_databases, exclude_databases, policies_to_delete,
          policies_to_keep, filtered_hive_policies, cloned_hive_policies,
          hive_policy, verdict, clone_result, src_path, path_result,
          action, response, all_policies_to_import, results, loop_index, store_log>>

storeVars == <<action, response, all_policies_to_import, results, loop_index, store_log>>

fnVars == <<hive_policy, verdict, clone_result, src_path, path_result>>

hiveVars == <<hive_policies, include_databases, exclude_databases, policies_to_delete,
              policies_to_keep, filtered_hive_policies, cloned_hive_policies>>

convVars == <<config, world, include_fids, exclude_fids, acl_fallback_enabled,
              fids_to_process, fid_index, all_ozone_policies, converted_ozone_policies,
              fb, events>>

synthVars == <<fid, hdfs_policies, ozone_policies, prev_ozone_policies>>

permVars == <<hdfs_accesses, posix_perms, ozone_accesses, posix_accesses>>

(***************************************************************************)
(* Bounds                                                                  *)
(***************************************************************************)
MaxAccesses == 3
MaxPolicies == 3
MaxSegments == 5

(***************************************************************************)
(* Python built-ins on lists and strings                                   *)
(***************************************************************************)
Range(s) == {s[i] : i \in DOMAIN s}

\* dict.get(key, default)
Get(d, key, default) == IF key \in DOMAIN d THEN d[key] ELSE default

\* str.startswith
StartsWith(s, p) == Len(p) <= Len(s) /\ SubSeq(s, 1, Len(p)) = p

\* str.rstrip(ch)
RECURSIVE RStrip(_, _)
RStrip(s, ch) ==
    IF s # <<>> /\ s[Len(s)] = ch THEN RStrip(SubSeq(s, 1, Len(s) - 1), ch) ELSE s

\* str.split(sep): the list of the pieces between the separators (never empty)
RECURSIVE Split(_, _)
Split(s, sep) ==
    IF \E i \in DOMAIN s : s[i] = sep
    THEN LET i == CHOOSE k \in DOMAIN s : s[k] = sep /\ \A j \in 1..(k - 1) : s[j] # sep
         IN  <<SubSeq(s, 1, i - 1)>> \o Split(SubSeq(s, i + 1, Len(s)), sep)
    ELSE <<s>>

\* the longest prefix of s holding no token of stop: what [^...]+ or [^...]* takes
RECURSIVE TakeUntil(_, _)
TakeUntil(s, stop) ==
    IF s = <<>> \/ s[1] \in stop THEN <<>> ELSE <<s[1]>> \o TakeUntil(Tail(s), stop)

(***************************************************************************)
(* 4.1 Permission translators                                              *)
(***************************************************************************)
AccessTypes == {"read", "write", "execute", "select"}

Grant(t) == [type |-> t, isAllowed |-> TRUE]

\* a loop that passes over the accesses whose isAllowed is false
RECURSIVE hdfs_direct_accesses_allowedonly(_)
hdfs_direct_accesses_allowedonly(accesses) ==
    IF accesses = <<>> THEN <<>>
    ELSE LET access == Head(accesses)
             rest   == hdfs_direct_accesses_allowedonly(Tail(accesses))
         IN  IF access.type = "read" /\ access.isAllowed THEN <<Grant("read")>> \o rest
             ELSE IF access.type = "write" /\ access.isAllowed THEN <<Grant("write")>> \o rest
             ELSE rest

\* the loop of convert_permissions_hdfs_to_ozone: one read/write grant per
\* read/write access met, in order
RECURSIVE hdfs_direct_accesses(_)
hdfs_direct_accesses(accesses) ==
    IF accesses = <<>> THEN <<>>
    ELSE LET access == Head(accesses)
             rest   == hdfs_direct_accesses(Tail(accesses))
         IN  IF access.type = "read" THEN <<Grant("read")>> \o rest
             ELSE IF access.type = "write" THEN <<Grant("write")>> \o rest
             ELSE rest

convert_permissions_hdfs_to_ozone_nolistguard(accesses) ==
    LET has_read    == \E i \in DOMAIN accesses : accesses[i].type = "read"
        has_write   == \E i \in DOMAIN accesses : accesses[i].type = "write"
        has_execute == \E i \in DOMAIN accesses : accesses[i].type = "execute"
    IN  hdfs_direct_accesses(accesses)
        \o (IF has_execute THEN <<Grant("list")>> ELSE <<>>)
        \o (IF has_write /\ has_execute THEN <<Grant("create"), Grant("delete")>> ELSE <<>>)

convert_permissions_hdfs_to_ozone(accesses) ==
    LET has_read    == \E i \in DOMAIN accesses : accesses[i].type = "read"
        has_write   == \E i \in DOMAIN accesses : accesses[i].type = "write"
        has_execute == \E i \in DOMAIN accesses : accesses[i].type = "execute"
    IN  hdfs_direct_accesses(accesses)
        \o (IF has_read /\ has_execute THEN <<Grant("list")>> ELSE <<>>)
        \o (IF has_write /\ has_execute THEN <<Grant("create"), Grant("delete")>> ELSE <<>>)

convert_posix_to_ozone_permissions(perms) ==
    LET has_read    == "r" \in Range(perms)
        has_write   == "w" \in Range(perms)
        has_execute == "x" \in Range(perms)
    IN  (IF has_read THEN <<Grant("read")>> ELSE <<>>)
        \o (IF has_write THEN <<Grant("write")>> ELSE <<>>)
        \o (IF has_read /\ has_execute THEN <<Grant("list")>> ELSE <<>>)
        \o (IF has_write /\ has_execute THEN <<Grant("create"), Grant("delete")>> ELSE <<>>)

\* access lists of a policy item: a permission kind appears at most once
AccessLists ==
    {s \in UNION {[1..n -> [type : AccessTypes, isAllowed : BOOLEAN]] : n \in 0..MaxAccesses} :
        \A i, j \in DOMAIN s : s[i].type = s[j].type => i = j}

\* the permission field of a getfacl line: three characters
PosixPerms == [1..3 -> {"r", "w", "x", "-"}]

\* main before it reaches the prompts
StoreIdle ==
    /\ action = ""
    /\ response = <<>>
    /\ all_policies_to_import = <<>>
    /\ results = [success |-> 0, failed |-> 0]
    /\ loop_index = 0
    /\ store_log = <<>>

\* the single-argument functions before they are called
FnIdle ==
    /\ hive_policy = <<>>
    /\ verdict = <<>>
    /\ clone_result = <<>>
    /\ src_path = <<>>
    /\ path_result = <<>>

\* the Hive side before main reaches it
HiveIdle ==
    /\ hive_policies = <<>>
    /\ include_databases = <<>>
    /\ exclude_databases = <<>>
    /\ policies_to_delete = <<>>
    /\ policies_to_keep = <<>>
    /\ filtered_hive_policies = <<>>
    /\ cloned_hive_policies = <<>>

PermInit ==
    /\ StoreIdle
    /\ FnIdle
    /\ HiveIdle
    /\ pc = "perm_start"
    /\ hashSeed = 0
    /\ hdfs_accesses \in AccessLists
    /\ posix_perms \in PosixPerms
    /\ ozone_accesses = <<>>
    /\ posix_accesses = <<>>
    /\ fid = <<>>
    /\ hdfs_policies = <<>>
    /\ ozone_policies = <<>>
    /\ prev_ozone_policies = <<>>
    /\ config = <<>>
    /\ world = <<>>
    /\ include_fids = <<>>
    /\ exclude_fids = <<>>
    /\ acl_fallback_enabled = FALSE
    /\ fids_to_process = <<>>
    /\ fid_index = 0
    /\ all_ozone_policies = <<>>
    /\ converted_ozone_policies = <<>>
    /\ fb = <<>>
    /\ events = <<>>

Translate ==
    /\ pc = "perm_start"
    /\ ozone_accesses' = convert_permissions_hdfs_to_ozone(hdfs_accesses)
    /\ posix_accesses' = convert_posix_to_ozone_permissions(posix_perms)
    /\ pc' = "perm_done"
    /\ UNCHANGED storeVars
    /\ UNCHANGED <<hashSeed, hdfs_accesses, posix_perms>>
    /\ UNCHANGED synthVars
    /\ UNCHANGED convVars
    /\ UNCHANGED hiveVars
    /\ UNCHANGED fnVars

PermNext == Translate

SpecPerm == PermInit /\ [][PermNext]_vars

Types(accesses) == {accesses[i].type : i \in DOMAIN accesses}

\* what the derived-permission table of the specification emits for a set of kinds
TableOutput(r, w, x) ==
    (IF r THEN {"read"} ELSE {}) \cup (IF w THEN {"write"} ELSE {})
    \cup (IF r /\ x THEN {"list"} ELSE {}) \cup (IF w /\ x THEN {"create", "delete"} ELSE {})

\* C1: both translators emit exactly read iff read, write iff write, list iff
\* read and execute, create and delete iff write and execute, nothing for
\* execute alone or for unknown kinds; they agree on corresponding inputs; and
\* adding an input permission never removes an output permission.
C1_TranslateTable ==
    pc = "perm_done" =>
        LET kinds == Types(hdfs_accesses)
            bits  == Range(posix_perms)
        IN  /\ Types(ozone_accesses)
                = TableOutput("read" \in kinds, "write" \in kinds, "execute" \in kinds)
            /\ Types(posix_accesses) = TableOutput("r" \in bits, "w" \in bits, "x" \in bits)
            /\ \A i \in DOMAIN ozone_accesses : ozone_accesses[i].type \in
                   {"read", "write", "list", "create", "delete"}
            /\ (/\ "read" \in kinds <=> "r" \in bits
                /\ "write" \in kinds <=> "w" \in bits
                /\ "execute" \in kinds <=> "x" \in bits)
               => Types(ozone_accesses) = Types(posix_accesses)
            /\ \A a \in [type : AccessTypes, isAllowed : BOOLEAN] :
                   Types(ozone_accesses) \subseteq
                       Types(convert_permissions_hdfs_to_ozone(Append(hdfs_accesses, a)))
            /\ \A i \in {k \in 1..3 : posix_perms[k] = "-"} : \A c \in {"r", "w", "x"} :
                   Types(posix_accesses) \subseteq
                       Types(convert_posix_to_ozone_permissions([posix_perms EXCEPT ![i] = c]))

\* C1 witness: read+execute+unknown translated next to r-x
C1_Witness ==
    /\ pc = "perm_done"
    /\ Types(hdfs_accesses) = {"read", "execute", "select"}
    /\ posix_perms = <<"r", "-", "x">>
    /\ Types(ozone_accesses) = {"read", "list"}

(***************************************************************************)
(* 4.2 Path classifier                                                     *)
(***************************************************************************)
\* list(a_set): the order is the hash order of the running process
RECURSIVE SetToSeq(_)
SetToSeq(S) ==
    IF S = {} THEN <<>> ELSE LET x == CHOOSE y \in S : TRUE IN <<x>> \o SetToSeq(S \ {x})

ListOfSet(S) ==
    LET s == SetToSeq(S)
        n == Len(s)
    IN  IF n = 0 THEN s ELSE [i \in 1..n |-> s[((i - 1 + hashSeed) % n) + 1]]

\* policy.get('resources', {}).get('path', {}).get('values', [])
PathValues(policy) == Get(Get(Get(policy, "resources", <<>>), "path", <<>>), "values", <<>>)

\* the level the path loop of categorize_hdfs_policies settles on: the first
\* path with three or more parts decides, then the loop breaks
\* the path loop counting the parts of the path as it is written
RECURSIVE LevelOfPaths_nostrip(_)
LevelOfPaths_nostrip(paths) ==
    IF paths = <<>> THEN "none"
    ELSE LET parts == Split(Head(paths), "/")
         IN  IF Len(parts) = 3 THEN "volume"
             ELSE IF Len(parts) = 4 THEN "bucket"
             ELSE IF Len(parts) >= 5 THEN "key"
             ELSE LevelOfPaths_nostrip(Tail(paths))

RECURSIVE LevelOfPaths(_)
LevelOfPaths(paths) ==
    IF paths = <<>> THEN "none"
    ELSE LET parts == Split(RStrip(Head(paths), "/"), "/")
         IN  IF Len(parts) = 3 THEN "volume"
             ELSE IF Len(parts) = 4 THEN "bucket"
             ELSE IF Len(parts) >= 5 THEN "key"
             ELSE LevelOfPaths(Tail(paths))

RECURSIVE SelectLevel(_, _)
SelectLevel(policies, level) ==
    IF policies = <<>> THEN <<>>
    ELSE (IF LevelOfPaths(PathValues(Head(policies))) = level THEN <<Head(policies)>> ELSE <<>>)
         \o SelectLevel(Tail(policies), level)

categorize_hdfs_policies(policies) ==
    [volume_policies |-> SelectLevel(policies, "volume"),
     bucket_policies |-> SelectLevel(policies, "bucket"),
     key_policies    |-> SelectLevel(policies, "key")]

\* (None, None): both falsy, like the empty string
NoBucketKey == [bucket |-> <<>>, key |-> <<>>]

\* re.match(f'/data/{fid}/([^/]+)/(.*)', hdfs_path.rstrip('/'))
extract_bucket_and_key_from_path(hdfs_path, f) ==
    LET s      == RStrip(hdfs_path, "/")
        prefix == <<"/", "data", "/">> \o f \o <<"/">>
        rest   == SubSeq(s, Len(prefix) + 1, Len(s))
        bucket == TakeUntil(rest, {"/"})
        key    == SubSeq(rest, Len(bucket) + 2, Len(rest))
    IN  IF /\ StartsWith(s, prefix)
           /\ bucket # <<>>
           /\ Len(rest) > Len(bucket)
        THEN [bucket |-> bucket, key |-> IF key # <<>> THEN key ELSE <<"*">>]
        ELSE NoBucketKey

(***************************************************************************)
(* 4.4 Policy synthesizer                                                  *)
(***************************************************************************)
ReadItem(users, groups, roles) ==
    [accesses |-> <<Grant("read")>>, users |-> users, groups |-> groups, roles |-> roles]

\* the volume policy without the roles
create_ozone_volume_policy_noroles(f, users, groups, roles, ozone_service) ==
    [service     |-> ozone_service,
     name        |-> f \o <<"_", "volume", "_", "policy">>,
     resources   |-> [volume |-> [values |-> <<f>>]],
     policyItems |-> <<ReadItem(users, groups, <<>>)>>]

create_ozone_volume_policy(f, users, groups, roles, ozone_service) ==
    [service     |-> ozone_service,
     name        |-> f \o <<"_", "volume", "_", "policy">>,
     resources   |-> [volume |-> [values |-> <<f>>]],
     policyItems |-> <<ReadItem(users, groups, roles)>>]

create_ozone_bucket_policy(f, buckets, users, groups, roles, ozone_service) ==
    [service     |-> ozone_service,
     name        |-> f \o <<"_", "bucket", "_", "policy">>,
     resources   |-> [volume |-> [values |-> <<f>>], bucket |-> [values |-> buckets]],
     policyItems |-> <<ReadItem(users, groups, roles)>>]

RECURSIVE ConvertItems(_)
ConvertItems(items) ==
    IF items = <<>> THEN <<>>
    ELSE LET item == Head(items)
         IN  <<[accesses |-> convert_permissions_hdfs_to_ozone(Get(item, "accesses", <<>>)),
                users    |-> Get(item, "users", <<>>),
                groups   |-> Get(item, "groups", <<>>),
                roles    |-> Get(item, "roles", <<>>)]>> \o ConvertItems(Tail(items))

\* the key policy without the recursive flag
create_ozone_key_policy_flat(f, bucket, key, hdfs_policy, ozone_service) ==
    [service     |-> ozone_service,
     name        |-> f \o <<"_">> \o bucket \o <<"_">> \o key \o <<"_", "key", "_", "policy">>,
     resources   |-> [volume |-> [values |-> <<f>>],
                      bucket |-> [values |-> <<bucket>>],
                      key    |-> [values |-> <<key>>, isRecursive |-> FALSE]],
     policyItems |-> ConvertItems(Get(hdfs_policy, "policyItems", <<>>))]

create_ozone_key_policy(f, bucket, key, hdfs_policy, ozone_service) ==
    LET policy == [service   |-> ozone_service,
                   name      |-> f \o <<"_">> \o bucket \o <<"_">> \o key
                                   \o <<"_", "key", "_", "policy">>,
                   resources |-> [volume |-> [values |-> <<f>>],
                                  bucket |-> [values |-> <<bucket>>],
                                  key    |-> [values |-> <<key>>, isRecursive |-> TRUE]]]
    IN  IF "policyItems" \in DOMAIN hdfs_policy
        THEN policy @@ [policyItems |-> ConvertItems(hdfs_policy["policyItems"])]
        ELSE policy

\* all_users / all_groups / all_roles: only the first policy is read
all_principals_firstonly(policies, kind) ==
    IF policies = <<>> THEN {}
    ELSE UNION {Range(Get(item, kind, <<>>)) :
                    item \in Range(Get(policies[1], "policyItems", <<>>))}

\* all_users / all_groups / all_roles of convert_hdfs_policies_for_fid
all_principals(policies, kind) ==
    UNION {Range(Get(item, kind, <<>>)) :
              item \in UNION {Range(Get(policies[i], "policyItems", <<>>)) : i \in DOMAIN policies}}

\* all_buckets of convert_hdfs_policies_for_fid
all_buckets(f, policies) ==
    {b \in {extract_bucket_and_key_from_path(pth, f).bucket :
               pth \in UNION {Range(PathValues(policies[i])) : i \in DOMAIN policies}} : b # <<>>}

RECURSIVE KeyPoliciesOfPaths(_, _, _, _)
KeyPoliciesOfPaths(f, paths, policy, ozone_service) ==
    IF paths = <<>> THEN <<>>
    ELSE LET bk == extract_bucket_and_key_from_path(Head(paths), f)
         IN  (IF bk.bucket # <<>> /\ bk.key # <<>>
              THEN <<create_ozone_key_policy(f, bk.bucket, bk.key, policy, ozone_service)>>
              ELSE <<>>)
             \o KeyPoliciesOfPaths(f, Tail(paths), policy, ozone_service)

RECURSIVE KeyPoliciesOf(_, _, _)
KeyPoliciesOf(f, key_policies, ozone_service) ==
    IF key_policies = <<>> THEN <<>>
    ELSE KeyPoliciesOfPaths(f, PathValues(Head(key_policies)), Head(key_policies), ozone_service)
         \o KeyPoliciesOf(f, Tail(key_policies), ozone_service)

convert_hdfs_policies_for_fid(f, policies, ozone_service) ==
    LET cat        == categorize_hdfs_policies(policies)
        all_users  == all_principals(policies, "users")
        all_groups == all_principals(policies, "groups")
        all_roles  == all_principals(policies, "roles")
        buckets    == all_buckets(f, cat.bucket_policies \o cat.key_policies)
    IN  (IF all_users # {} \/ all_groups # {} \/ all_roles # {}
         THEN <<create_ozone_volume_policy(f, ListOfSet(all_users), ListOfSet(all_groups),
                                           ListOfSet(all_roles), ozone_service)>>
         ELSE <<>>)
        \o (IF buckets # {}
            THEN <<create_ozone_bucket_policy(f, ListOfSet(buckets), ListOfSet(all_users),
                                              ListOfSet(all_groups), ListOfSet(all_roles),
                                              ozone_service)>>
            ELSE <<>>)
        \o KeyPoliciesOf(f, cat.key_policies, ozone_service)

(***************************************************************************)
(* Source policies the synthesis is run on                                 *)
(***************************************************************************)
\* "/a/b/c" from the segments a, b, c (each a token sequence)
RECURSIVE Path(_)
Path(segs) == IF segs = <<>> THEN <<>> ELSE <<"/">> \o Head(segs) \o Path(Tail(segs))

Accesses(types) == [i \in DOMAIN types |-> [type |-> types[i], isAllowed |-> TRUE]]

Item(users, groups, roles, types) ==
    [accesses |-> Accesses(types), users |-> users, groups |-> groups, roles |-> roles,
     delegateAdmin |-> FALSE]

HdfsPolicy(id, name, paths, items) ==
    [id |-> id, name |-> name, service |-> "cm_hdfs", isEnabled |-> TRUE,
     resources |-> [path |-> [values |-> paths, isRecursive |-> TRUE]],
     policyItems |-> items]

fid2 == <<"fid2">>
fid9 == <<"fid9">>

PolRoot ==
    HdfsPolicy(11, <<"fid2", "_", "root">>, <<Path(<<<<"data">>, fid2>>)>>,
               <<Item(<<"alice">>, <<>>, <<>>, <<"read">>)>>)

PolBucket ==
    HdfsPolicy(12, <<"fid2", "_", "raw">>, <<Path(<<<<"data">>, fid2, <<"raw">>>>)>>, <<>>)

PolLeaf ==
    HdfsPolicy(13, <<"fid2", "_", "raw", "_", "k1">>,
               <<Path(<<<<"data">>, fid2, <<"raw">>, <<"k1">>>>)>>,
               <<Item(<<>>, <<"eng">>, <<>>, <<"read", "write">>)>>)

\* a second policy on the path of PolLeaf
PolLeafDup ==
    HdfsPolicy(14, <<"fid2", "_", "k1", "_", "bob">>,
               <<Path(<<<<"data">>, fid2, <<"raw">>, <<"k1">>>>)>>,
               <<Item(<<"bob">>, <<>>, <<>>, <<"read", "execute">>)>>)

\* two paths of different depth, the first with a trailing separator; two items
PolMixed ==
    HdfsPolicy(15, <<"fid2", "_", "work">>,
               <<Path(<<<<"data">>, fid2, <<"work">>, <<"k2">>, <<"sub">>>>) \o <<"/">>,
                 Path(<<<<"data">>, fid2, <<"raw">>>>)>>,
               <<Item(<<>>, <<>>, <<"admin">>, <<"write", "execute">>),
                 Item(<<"alice">>, <<>>, <<>>, <<"execute">>)>>)

\* a path outside the /data namespace
PolOther ==
    HdfsPolicy(16, <<"ns", "_", "k9">>,
               <<Path(<<<<"ns">>, fid2, <<"raw">>, <<"k9">>>>)>>,
               <<Item(<<"bob">>, <<>>, <<>>, <<"read">>)>>)

\* the paths of two depths the other way round: the bucket first, then a key
PolBucketFirst ==
    HdfsPolicy(19, <<"fid2", "_", "raw", "_", "k3">>,
               <<Path(<<<<"data">>, fid2, <<"raw">>>>),
                 Path(<<<<"data">>, fid2, <<"raw">>, <<"k3">>>>)>>,
               <<Item(<<"bob">>, <<>>, <<>>, <<"read", "write">>)>>)

SynthCatalogue == {PolRoot, PolBucket, PolLeaf, PolLeafDup, PolMixed, PolOther, PolBucketFirst}

SynthFids == {fid2, fid9}

HashSeeds == {0, 1}

OzoneService == "cm_ozone"

\* lists of at most n distinct elements of S: an export lists a policy once
ListsOver(S, n) ==
    {l \in UNION {[1..k -> S] : k \in 0..n} : \A i, j \in DOMAIN l : l[i] = l[j] => i = j}

ListPermutations(n) == {p \in [1..n -> 1..n] : \A i, j \in 1..n : p[i] = p[j] => i = j}

SynthInit ==
    /\ StoreIdle
    /\ FnIdle
    /\ HiveIdle
    /\ pc = "synth_start"
    /\ hashSeed \in HashSeeds
    /\ fid \in SynthFids
    /\ hdfs_policies \in ListsOver(SynthCatalogue, MaxPolicies)
    /\ ozone_policies = <<>>
    /\ prev_ozone_policies = <<>>
    /\ hdfs_accesses = <<>>
    /\ posix_perms = <<>>
    /\ ozone_accesses = <<>>
    /\ posix_accesses = <<>>
    /\ config = <<>>
    /\ world = <<>>
    /\ include_fids = <<>>
    /\ exclude_fids = <<>>
    /\ acl_fallback_enabled = FALSE
    /\ fids_to_process = <<>>
    /\ fid_index = 0
    /\ all_ozone_policies = <<>>
    /\ converted_ozone_policies = <<>>
    /\ fb = <<>>
    /\ events = <<>>

\* convert_hdfs_policies_for_fid(fid, hdfs_policies, ozone_service)
Synthesize ==
    /\ pc \in {"synth_start", "synth_restart"}
    /\ ozone_policies' = convert_hdfs_policies_for_fid(fid, hdfs_policies, OzoneService)
    /\ pc' = IF pc = "synth_start" THEN "synth_done" ELSE "synth_again"
    /\ UNCHANGED storeVars
    /\ UNCHANGED <<hashSeed, fid, hdfs_policies, prev_ozone_policies>>
    /\ UNCHANGED permVars
    /\ UNCHANGED fnVars
    /\ UNCHANGED hiveVars
    /\ UNCHANGED convVars

\* the program is started again on the same policies: another process (another
\* hash seed), the exported list in another order
Rerun ==
    /\ pc = "synth_done"
    /\ hashSeed' \in HashSeeds
    /\ \E p \in ListPermutations(Len(hdfs_policies)) :
           hdfs_policies' = [i \in DOMAIN hdfs_policies |-> hdfs_policies[p[i]]]
    /\ prev_ozone_policies' = ozone_policies
    /\ pc' = "synth_restart"
    /\ UNCHANGED storeVars
    /\ UNCHANGED <<fid, ozone_policies>>
    /\ UNCHANGED permVars
    /\ UNCHANGED fnVars
    /\ UNCHANGED hiveVars
    /\ UNCHANGED convVars

SynthNext == Synthesize \/ Rerun

SpecSynth == SynthInit /\ [][SynthNext]_vars

(***************************************************************************)
(* Claims about the synthesis                                              *)
(***************************************************************************)
SynthDone == pc \in {"synth_done", "synth_again"}

Kinds(p) == DOMAIN p.resources

VolumePolicies == {i \in DOMAIN ozone_policies : Kinds(ozone_policies[i]) = {"volume"}}
BucketPolicies == {i \in DOMAIN ozone_policies : Kinds(ozone_policies[i]) = {"volume", "bucket"}}
KeyPolicies    == {i \in DOMAIN ozone_policies : "key" \in Kinds(ozone_policies[i])}

\* the union of a principal kind over every item of every input policy
UnionOf(kind) ==
    {u \in {"alice", "bob", "eng", "admin"} :
        \E i \in DOMAIN hdfs_policies : \E j \in DOMAIN hdfs_policies[i].policyItems :
            \E k \in DOMAIN hdfs_policies[i].policyItems[j][kind] :
                hdfs_policies[i].policyItems[j][kind][k] = u}

\* one item granting only read to exactly the three unioned principal sets
GrantsReadToUnion(p) ==
    /\ Len(p.policyItems) = 1
    /\ p.policyItems[1].accesses = <<[type |-> "read", isAllowed |-> TRUE]>>
    /\ Range(p.policyItems[1].users) = UnionOf("users")
    /\ Range(p.policyItems[1].groups) = UnionOf("groups")
    /\ Range(p.policyItems[1].roles) = UnionOf("roles")

\* C2: exactly one ROOT (volume) policy when the union of users, groups and
\* roles over all items of all input policies is non-empty and none when it is
\* empty; it names volume = fid and has one item granting only read to exactly
\* the unioned principals.
C2_RootPolicy ==
    SynthDone =>
        IF UnionOf("users") \cup UnionOf("groups") \cup UnionOf("roles") = {}
        THEN VolumePolicies = {}
        ELSE /\ Cardinality(VolumePolicies) = 1
             /\ \A i \in VolumePolicies :
                    /\ ozone_policies[i].resources.volume.values = <<fid>>
                    /\ GrantsReadToUnion(ozone_policies[i])

\* C2 witness: a ROOT policy over the union of several policies, roles included
C2_Witness ==
    /\ pc = "synth_done"
    /\ Len(hdfs_policies) = 3
    /\ UnionOf("users") = {"alice", "bob"}
    /\ UnionOf("groups") = {"eng"}
    /\ UnionOf("roles") = {"admin"}
    /\ Cardinality(VolumePolicies) = 1

\* the segments of a path, per 4.2: trailing separators stripped, split on "/"
Parts(pth) == Split(RStrip(pth, "/"), "/")

\* the path lies under /data/<fid> and names a container
NamesContainer(pth) ==
    /\ Len(Parts(pth)) >= 4
    /\ Parts(pth)[1] = <<>>
    /\ Parts(pth)[2] = <<"data">>
    /\ Parts(pth)[3] = fid
    /\ Parts(pth)[4] # <<>>

\* the leaf of such a path: what follows the container, or the wildcard
LeafOf(pth) ==
    LET s == RStrip(pth, "/")
        n == 3 + Len(fid) + 1 + Len(Parts(pth)[4]) + 1
    IN  IF Len(Parts(pth)) = 4 THEN <<"*">> ELSE SubSeq(s, n + 1, Len(s))

\* the container names referenced by the CONTAINER-level and LEAF-level policies
ReferencedContainers ==
    {Parts(pth)[4] :
        pth \in {q \in UNION {Range(PathValues(hdfs_policies[i])) :
                                 i \in {k \in DOMAIN hdfs_policies :
                                           LevelOfPaths(PathValues(hdfs_policies[k]))
                                               \in {"bucket", "key"}}} :
                    NamesContainer(q)}}

\* C3: one CONTAINER (bucket) policy iff the set of container names referenced
\* by the paths of CONTAINER-level and LEAF-level input policies is non-empty;
\* its bucket values are exactly that set and it grants read to the unioned
\* principals.
C3_BucketPolicy ==
    SynthDone =>
        IF ReferencedContainers = {}
        THEN BucketPolicies = {}
        ELSE /\ Cardinality(BucketPolicies) = 1
             /\ \A i \in BucketPolicies :
                    /\ ozone_policies[i].resources.volume.values = <<fid>>
                    /\ Range(ozone_policies[i].resources.bucket.values) = ReferencedContainers
                    /\ GrantsReadToUnion(ozone_policies[i])

\* the items of target policy p are those of source policy src, one to one,
\* principals kept and accesses translated by the table of 4.1
ItemsTranslated(p, src) ==
    /\ "policyItems" \in DOMAIN p
    /\ Len(p.policyItems) = Len(src.policyItems)
    /\ \A j \in DOMAIN src.policyItems :
           /\ p.policyItems[j].users = src.policyItems[j].users
           /\ p.policyItems[j].groups = src.policyItems[j].groups
           /\ p.policyItems[j].roles = src.policyItems[j].roles
           /\ Types(p.policyItems[j].accesses)
                  = TableOutput("read" \in Types(src.policyItems[j].accesses),
                                "write" \in Types(src.policyItems[j].accesses),
                                "execute" \in Types(src.policyItems[j].accesses))

ScopedTo(p, bucket, key) ==
    /\ Kinds(p) = {"volume", "bucket", "key"}
    /\ p.resources.volume.values = <<fid>>
    /\ p.resources.bucket.values = <<bucket>>
    /\ p.resources.key.values = <<key>>
    /\ p.resources.key.isRecursive = TRUE

\* C4: for every input policy classified LEAF and every path it declares under
\* the root, one LEAF (key) policy scoped to the path's (container, leaf),
\* recursive, with the source policy's items translated one to one.
C4_LeafPolicies ==
    SynthDone =>
        \A i \in DOMAIN hdfs_policies :
            LevelOfPaths(PathValues(hdfs_policies[i])) = "key" =>
                \A pth \in Range(PathValues(hdfs_policies[i])) :
                    NamesContainer(pth) =>
                        \E k \in KeyPolicies :
                            /\ ScopedTo(ozone_policies[k], Parts(pth)[4], LeafOf(pth))
                            /\ ItemsTranslated(ozone_policies[k], hdfs_policies[i])

\* the scenario of the specification, in the namespace the code reads (/data)
Scenario == <<PolRoot, PolBucket, PolLeaf>>

OneReadItem(p, users, groups) ==
    /\ Len(p.policyItems) = 1
    /\ p.policyItems[1].accesses = <<[type |-> "read", isAllowed |-> TRUE]>>
    /\ Range(p.policyItems[1].users) = users
    /\ Range(p.policyItems[1].groups) = groups
    /\ Range(p.policyItems[1].roles) = {}

\* the three target policies of the scenario, the ROOT and CONTAINER policy
\* granting read to the given users and groups
ScenarioResult(users, groups) ==
    /\ Len(ozone_policies) = 3
    /\ \E i \in VolumePolicies :
           /\ ozone_policies[i].resources.volume.values = <<fid2>>
           /\ OneReadItem(ozone_policies[i], users, groups)
    /\ \E i \in BucketPolicies :
           /\ ozone_policies[i].resources.volume.values = <<fid2>>
           /\ ozone_policies[i].resources.bucket.values = <<<<"raw">>>>
           /\ OneReadItem(ozone_policies[i], users, groups)
    /\ \E i \in KeyPolicies :
           /\ ScopedTo(ozone_policies[i], <<"raw">>, <<"k1">>)
           /\ Len(ozone_policies[i].policyItems) = 1
           /\ Types(ozone_policies[i].policyItems[1].accesses) = {"read", "write"}
           /\ Range(ozone_policies[i].policyItems[1].groups) = {"eng"}
           /\ Range(ozone_policies[i].policyItems[1].users) = {}
           /\ Range(ozone_policies[i].policyItems[1].roles) = {}

ScenarioRun == SynthDone /\ fid = fid2 /\ hdfs_policies = Scenario

\* C5 as stated: the scenario yields exactly a ROOT policy granting alice read,
\* a CONTAINER policy on bucket raw granting alice read, and a LEAF policy on
\* raw/k1, recursive, granting group eng {read, write}.
C5_ScenarioAsStated == ScenarioRun => ScenarioResult({"alice"}, {})

\* C5 amended: the ROOT and the CONTAINER policy grant read to user alice and
\* to group eng (the union over all three source policies); the rest as stated.
C5_ScenarioAmended == ScenarioRun => ScenarioResult({"alice"}, {"eng"})

\* C5 witness: the scenario has been synthesized into three policies
C5_Witness == ScenarioRun /\ Len(ozone_policies) = 3 /\ KeyPolicies # {}

\* C7: among the target policies of one conversion no two share a name (each
\* (root, level, container, leaf) tuple is emitted at most once).
C7_UniqueNames ==
    SynthDone =>
        \A i, j \in DOMAIN ozone_policies :
            ozone_policies[i].name = ozone_policies[j].name => i = j

\* a target policy with its collections as sets
AsSets(p) ==
    [name      |-> p.name,
     volume    |-> Range(p.resources.volume.values),
     bucket    |-> Range(Get(Get(p.resources, "bucket", <<>>), "values", <<>>)),
     key       |-> Get(p.resources, "key", <<>>),
     items     |-> [j \in DOMAIN Get(p, "policyItems", <<>>) |->
                       [accesses |-> Range(p.policyItems[j].accesses),
                        users    |-> Range(p.policyItems[j].users),
                        groups   |-> Range(p.policyItems[j].groups),
                        roles    |-> Range(p.policyItems[j].roles)]]]

Occurrences(x, l) == Cardinality({i \in DOMAIN l : AsSets(l[i]) = x})

\* C8: run again on the same policies in any order (and under any hash order),
\* the synthesis gives the same target policies: the same names with the same
\* principals and permissions, collections compared as sets and the output
\* list up to ordering.
C8_OrderIndependent ==
    pc = "synth_again" =>
        /\ Len(prev_ozone_policies) = Len(ozone_policies)
        /\ \A i \in DOMAIN ozone_policies :
               Occurrences(AsSets(ozone_policies[i]), ozone_policies)
                   = Occurrences(AsSets(ozone_policies[i]), prev_ozone_policies)

\* C8 witness: the second run saw another order and gave another list, with
\* ROOT, CONTAINER and two LEAF policies in it
C8_Witness ==
    /\ pc = "synth_again"
    /\ prev_ozone_policies # ozone_policies
    /\ Cardinality(KeyPolicies) >= 2
    /\ VolumePolicies # {}
    /\ BucketPolicies # {}

(***************************************************************************)
(* 4.6 ACL fallback resolver: the Filesystem ACL Provider and the parsers  *)
(***************************************************************************)
Whitespace == {" ", "TAB"}

\* str.strip()
RECURSIVE LStrip(_)
LStrip(s) == IF s # <<>> /\ s[1] \in Whitespace THEN LStrip(Tail(s)) ELSE s

RECURSIVE RStripWs(_)
RStripWs(s) ==
    IF s # <<>> /\ s[Len(s)] \in Whitespace THEN RStripWs(SubSeq(s, 1, Len(s) - 1)) ELSE s

Strip(s) == RStripWs(LStrip(s))

\* line.split(":", 1)[1]
AfterFirst(s, sep) ==
    LET i == CHOOSE k \in DOMAIN s : s[k] = sep /\ \A j \in 1..(k - 1) : s[j] # sep
    IN  SubSeq(s, i + 1, Len(s))

\* list.append(x) guarded by "if x not in list"
AppendNew(l, x) == IF x \in Range(l) THEN l ELSE Append(l, x)

OwnerLine == <<"#", " ", "owner", ":">>
GroupLine == <<"#", " ", "group", ":">>

\* one turn of the line loop of parse_hdfs_facl
parse_hdfs_facl_line(acc, raw) ==
    LET line  == Strip(raw)
        parts == Split(line, ":")
    IN  IF line = <<>> THEN acc
        ELSE IF StartsWith(line, OwnerLine)
        THEN [acc EXCEPT !.owner = Strip(AfterFirst(line, ":"))]
        ELSE IF StartsWith(line, GroupLine)
        THEN [acc EXCEPT !.primary_group = Strip(AfterFirst(line, ":"))]
        ELSE IF StartsWith(line, <<"user", ":">>)
        THEN IF Len(parts) >= 3 /\ "r" \in Range(parts[3])
             THEN IF parts[2] # <<>> THEN [acc EXCEPT !.users = AppendNew(@, parts[2])]
                  ELSE IF acc.owner # <<>> THEN [acc EXCEPT !.users = AppendNew(@, acc.owner)]
                  ELSE acc
             ELSE acc
        ELSE IF StartsWith(line, <<"group", ":">>)
        THEN IF Len(parts) >= 3 /\ "r" \in Range(parts[3])
             THEN IF parts[2] # <<>> THEN [acc EXCEPT !.groups = AppendNew(@, parts[2])]
                  ELSE IF acc.primary_group # <<>>
                  THEN [acc EXCEPT !.groups = AppendNew(@, acc.primary_group)]
                  ELSE acc
             ELSE acc
        ELSE acc

RECURSIVE parse_hdfs_facl_loop(_, _)
parse_hdfs_facl_loop(acc, lines) ==
    IF lines = <<>> THEN acc
    ELSE parse_hdfs_facl_loop(parse_hdfs_facl_line(acc, Head(lines)), Tail(lines))

\* users and groups with the read bit; principal names are token sequences
parse_hdfs_facl(facl_output) ==
    LET acc == parse_hdfs_facl_loop(
                   [owner |-> <<>>, primary_group |-> <<>>, users |-> <<>>, groups |-> <<>>],
                   facl_output)
    IN  [users |-> acc.users, groups |-> acc.groups]

\* first pass of parse_hdfs_facl_full_permissions: the last owner / group line wins
FirstPassOwner(lines) ==
    LET isOwner(l) == StartsWith(Strip(l), OwnerLine)
        owners == SelectSeq(lines, isOwner)
    IN  IF owners = <<>> THEN <<>> ELSE Strip(AfterFirst(Strip(owners[Len(owners)]), ":"))

\* "# group:" is only tried on a line that is no "# owner:" line
FirstPassGroup(lines) ==
    LET isGroup(l) == ~StartsWith(Strip(l), OwnerLine) /\ StartsWith(Strip(l), GroupLine)
        groups == SelectSeq(lines, isGroup)
    IN  IF groups = <<>> THEN <<>> ELSE Strip(AfterFirst(Strip(groups[Len(groups)]), ":"))

\* one turn of the second pass of parse_hdfs_facl_full_permissions
parse_full_line(acc, raw, owner, primary_group) ==
    LET line  == Strip(raw)
        parts == Split(line, ":")
    IN  IF line = <<>> \/ StartsWith(line, <<"#">>) THEN acc
        ELSE IF StartsWith(line, <<"user", ":">>)
        THEN IF Len(parts) >= 3
             THEN LET user     == IF parts[2] # <<>> THEN parts[2] ELSE owner
                      accesses == convert_posix_to_ozone_permissions(parts[3])
                  IN  IF user # <<>> /\ user \notin acc.processed_users /\ accesses # <<>>
                      THEN [acc EXCEPT
                               !.permission_items =
                                   Append(@, [users |-> <<user>>, groups |-> <<>>,
                                              roles |-> <<>>, accesses |-> accesses]),
                               !.processed_users = @ \cup {user}]
                      ELSE acc
             ELSE acc
        ELSE IF StartsWith(line, <<"group", ":">>)
        THEN IF Len(parts) >= 3
             THEN LET group    == IF parts[2] # <<>> THEN parts[2] ELSE primary_group
                      accesses == convert_posix_to_ozone_permissions(parts[3])
                  IN  IF group # <<>> /\ group \notin acc.processed_groups /\ accesses # <<>>
                      THEN [acc EXCEPT
                               !.permission_items =
                                   Append(@, [users |-> <<>>, groups |-> <<group>>,
                                              roles |-> <<>>, accesses |-> accesses]),
                               !.processed_groups = @ \cup {group}]
                      ELSE acc
             ELSE acc
        ELSE acc

RECURSIVE parse_full_loop(_, _, _, _)
parse_full_loop(acc, lines, owner, primary_group) ==
    IF lines = <<>> THEN acc
    ELSE parse_full_loop(parse_full_line(acc, Head(lines), owner, primary_group),
                         Tail(lines), owner, primary_group)

\* the parser putting every principal into one item
parse_hdfs_facl_full_permissions_coalesced(facl_output) ==
    LET items == parse_full_loop([permission_items |-> <<>>, processed_users |-> {},
                                  processed_groups |-> {}],
                                 facl_output, FirstPassOwner(facl_output),
                                 FirstPassGroup(facl_output)).permission_items
        us    == SelectSeq(items, LAMBDA it : it.users # <<>>)
        gs    == SelectSeq(items, LAMBDA it : it.groups # <<>>)
    IN  IF items = <<>> THEN <<>>
        ELSE <<[users    |-> [i \in DOMAIN us |-> us[i].users[1]],
                groups   |-> [i \in DOMAIN gs |-> gs[i].groups[1]],
                roles    |-> <<>>,
                accesses |-> items[1].accesses]>>

parse_hdfs_facl_full_permissions(facl_output) ==
    parse_full_loop([permission_items |-> <<>>, processed_users |-> {},
                     processed_groups |-> {}],
                    facl_output, FirstPassOwner(facl_output),
                    FirstPassGroup(facl_output)).permission_items

(***************************************************************************)
(* The Filesystem ACL Provider calls.  Each returns its result and the     *)
(* calls it made; ok, ok1, ok2 are the outcomes of the kinit runs.         *)
(***************************************************************************)
Kinit(ok) == [op |-> "kinit", path |-> <<>>, ok |-> ok]
Command(op, path) == [op |-> op, path |-> path, ok |-> TRUE]

\* a variant that reports success whatever kinit returned
ensure_kerberos_auth_open(ok) ==
    IF ~config.KEYTAB_PATH \/ ~config.PRINCIPAL THEN [result |-> FALSE, calls |-> <<>>]
    ELSE [result |-> TRUE, calls |-> <<Kinit(ok)>>]

\* ensure_kerberos_auth: both settings are in the config whenever the fallback runs
ensure_kerberos_auth(ok) ==
    IF ~config.KEYTAB_PATH \/ ~config.PRINCIPAL THEN [result |-> FALSE, calls |-> <<>>]
    ELSE [result |-> ok, calls |-> <<Kinit(ok)>>]

hdfs_path_exists(hdfs_path, ok) ==
    LET auth == ensure_kerberos_auth(ok)
    IN  IF ~auth.result THEN [result |-> FALSE, calls |-> auth.calls]
        ELSE [result |-> hdfs_path \in world.dirs,
              calls  |-> auth.calls \o <<Command("test", hdfs_path)>>]

get_hdfs_subdirs(hdfs_path, ok) ==
    LET auth == ensure_kerberos_auth(ok)
    IN  IF ~auth.result THEN [result |-> <<>>, calls |-> auth.calls]
        ELSE [result |-> SelectSeq(Get(world.subdirs, hdfs_path, <<>>), LAMBDA d : d # <<>>),
              calls  |-> auth.calls \o <<Command("ls", hdfs_path)>>]

get_hdfs_facl(hdfs_path, ok1, ok2) ==
    LET auth   == ensure_kerberos_auth(ok1)
        exists == hdfs_path_exists(hdfs_path, ok2)
    IN  IF ~auth.result THEN [result |-> <<>>, calls |-> auth.calls]
        ELSE IF ~exists.result THEN [result |-> <<>>, calls |-> auth.calls \o exists.calls]
        ELSE [result |-> Get(world.facl, hdfs_path, <<>>),
              calls  |-> auth.calls \o exists.calls \o <<Command("getfacl", hdfs_path)>>]

\* the outcomes of two kinit runs in a row; the second is made only after the
\* first succeeded
KinitPairs == {<<TRUE, TRUE>>, <<TRUE, FALSE>>, <<FALSE, FALSE>>}

FromAcls == <<"_", "from", "_", "hdfs", "_", "acls">>

\* an item that grants write next to read
AclReadItem_write(users, groups) ==
    [accesses |-> <<Grant("read"), Grant("write")>>, users |-> users, groups |-> groups,
     roles |-> <<>>]

AclReadItem(users, groups) ==
    [accesses |-> <<Grant("read")>>, users |-> users, groups |-> groups, roles |-> <<>>]

\* config.get('FID_DIR_PREFIX', '/data/') + fid
FidPath(f) == <<"/", "data", "/">> \o f

acl_volume_policy(f, users, groups, ozone_service) ==
    [service     |-> ozone_service,
     name        |-> f \o <<"_", "volume", "_", "policy">> \o FromAcls,
     description |-> <<"Created from HDFS ACLs for ">> \o FidPath(f),
     resources   |-> [volume |-> [values |-> <<f>>]],
     policyItems |-> <<AclReadItem(users, groups)>>]

acl_bucket_policy(f, buckets, users, groups, ozone_service) ==
    [service     |-> ozone_service,
     name        |-> f \o <<"_", "bucket", "_", "policy">> \o FromAcls,
     description |-> <<"Created from HDFS ACLs for buckets">>,
     resources   |-> [volume |-> [values |-> <<f>>], bucket |-> [values |-> buckets]],
     policyItems |-> <<AclReadItem(users, groups)>>]

\* a key policy that lists its bucket among the volumes
acl_key_policy_bucketasvolume(f, bucket, permission_items, ozone_service) ==
    [service     |-> ozone_service,
     name        |-> f \o <<"_">> \o bucket \o <<"_", "key", "_", "policy">> \o FromAcls,
     description |-> <<"Created from HDFS ACLs for ">> \o FidPath(f) \o <<"/">> \o bucket,
     resources   |-> [volume |-> [values |-> <<f, bucket>>],
                      bucket |-> [values |-> <<bucket>>],
                      key    |-> [values |-> <<<<"*">>>>, isRecursive |-> TRUE]],
     policyItems |-> permission_items]

acl_key_policy(f, bucket, permission_items, ozone_service) ==
    [service     |-> ozone_service,
     name        |-> f \o <<"_">> \o bucket \o <<"_", "key", "_", "policy">> \o FromAcls,
     description |-> <<"Created from HDFS ACLs for ">> \o FidPath(f) \o <<"/">> \o bucket,
     resources   |-> [volume |-> [values |-> <<f>>],
                      bucket |-> [values |-> <<bucket>>],
                      key    |-> [values |-> <<<<"*">>>>, isRecursive |-> TRUE]],
     policyItems |-> permission_items]

(***************************************************************************)
(* convert_all_hdfs_policies                                               *)
(***************************************************************************)
\* the third segment of a path under any first directory
extract_fid_from_path_anyroot(hdfs_path) ==
    IF Len(Split(hdfs_path, "/")) >= 3 /\ Split(hdfs_path, "/")[1] = <<>>
           /\ Split(hdfs_path, "/")[2] # <<>>
    THEN Split(hdfs_path, "/")[3]
    ELSE <<>>

\* re.match(r'/data/([^/]+)', hdfs_path): None is the empty string
extract_fid_from_path(hdfs_path) ==
    IF StartsWith(hdfs_path, <<"/", "data", "/">>)
    THEN TakeUntil(SubSeq(hdfs_path, 4, Len(hdfs_path)), {"/"})
    ELSE <<>>

\* a list as the set of its members that pass "if x in other"
KeepIn(S, other) == {x \in S : x \in Range(other)}

get_fids_from_hdfs_policies(policies, include, exclude) ==
    LET fids == {f \in {extract_fid_from_path(pth) :
                           pth \in UNION {Range(PathValues(policies[i])) : i \in DOMAIN policies}} :
                    f # <<>>}
        kept == IF exclude # <<>> THEN fids \ Range(exclude) ELSE fids
    IN  IF include # <<>> THEN KeepIn(kept, include) ELSE kept

\* every policy is handed to every fid
get_hdfs_policies_for_fid_all(f, policies) == policies

get_hdfs_policies_for_fid(f, policies) ==
    SelectSeq(policies,
              LAMBDA policy : \E i \in DOMAIN PathValues(policy) :
                                  StartsWith(PathValues(policy)[i], FidPath(f)))

\* the fallback runs whatever the switch says
is_hdfs_acl_fallback_enabled_always == TRUE

is_hdfs_acl_fallback_enabled ==
    /\ config.ENABLE_HDFS_ACL_FALLBACK
    /\ config.KEYTAB_PATH
    /\ config.PRINCIPAL
    /\ config.keytab_exists

fid20 == <<"fid2", "0">>

\* sorted(list(fids_to_process)): "fid2" < "fid20" < "fid9"
FidOrder == <<fid2, fid20, fid9>>

Sorted(S) == SelectSeq(FidOrder, LAMBDA f : f \in S)

CurrentFid == fids_to_process[fid_index]

Event(op, f) == [op |-> op, path |-> f, ok |-> TRUE]

\* lines 1105-1129: the fids to process
ConvStart ==
    /\ pc = "conv_start"
    /\ acl_fallback_enabled' = is_hdfs_acl_fallback_enabled
    /\ LET ranger_fids == get_fids_from_hdfs_policies(hdfs_policies, include_fids, exclude_fids)
           with_include == IF include_fids # <<>> /\ is_hdfs_acl_fallback_enabled
                           THEN ranger_fids \cup Range(include_fids) ELSE ranger_fids
           without_exclude == IF exclude_fids # <<>> THEN with_include \ Range(exclude_fids)
                              ELSE with_include
       IN  fids_to_process' = Sorted(without_exclude)
    /\ fid_index' = 1
    /\ all_ozone_policies' = <<>>
    /\ pc' = "conv_loop"
    /\ UNCHANGED storeVars
    /\ UNCHANGED <<hashSeed, hdfs_policies, config, world, include_fids, exclude_fids,
                   converted_ozone_policies, fb, events>>
    /\ UNCHANGED <<fid, ozone_policies, prev_ozone_policies>>
    /\ UNCHANGED permVars
    /\ UNCHANGED fnVars
    /\ UNCHANGED hiveVars

InLoop == pc = "conv_loop" /\ fid_index <= Len(fids_to_process)

\* lines 1135-1139: Ranger policies found for the fid
ConvFromRanger ==
    /\ InLoop
    /\ LET fid_policies == get_hdfs_policies_for_fid(CurrentFid, hdfs_policies)
           converted    == convert_hdfs_policies_for_fid(CurrentFid, fid_policies, OzoneService)
       IN  /\ fid_policies # <<>>
           /\ all_ozone_policies' = all_ozone_policies \o converted
           /\ events' = events \o <<Event("convert", CurrentFid)>>
                               \o [i \in DOMAIN converted |-> Event("from_ranger", CurrentFid)]
    /\ fid_index' = fid_index + 1
    /\ UNCHANGED storeVars
    /\ UNCHANGED <<pc, hashSeed, hdfs_policies, config, world, include_fids, exclude_fids,
                   acl_fallback_enabled, fids_to_process, converted_ozone_policies, fb>>
    /\ UNCHANGED <<fid, ozone_policies, prev_ozone_policies>>
    /\ UNCHANGED permVars
    /\ UNCHANGED fnVars
    /\ UNCHANGED hiveVars

\* (The branch of lines 1154-1155, no Ranger policies and the fallback disabled,
\* is never taken: without the fallback every fid to process comes from a path
\* of some policy, and that policy passes get_hdfs_policies_for_fid.  It is
\* the invariant NoSkipBranch below.)

\* lines 1145-1147 and 758-794: the fallback is entered; volume ACL and policy
FallbackVolume ==
    /\ InLoop
    /\ get_hdfs_policies_for_fid(CurrentFid, hdfs_policies) = <<>>
    /\ acl_fallback_enabled
    /\ \E oks \in KinitPairs :
           LET facl   == get_hdfs_facl(FidPath(CurrentFid), oks[1], oks[2])
               parsed == parse_hdfs_facl(facl.result)
               called == events \o <<Event("fallback", CurrentFid)>> \o facl.calls
           IN  /\ events' = called
               /\ IF facl.result = <<>> \/ (parsed.users = <<>> /\ parsed.groups = <<>>)
                  THEN \* return []: "HDFS ACL fallback also failed"
                       /\ fid_index' = fid_index + 1
                       /\ UNCHANGED <<pc, fb>>
                  ELSE /\ fb' = [volume_users  |-> parsed.users,
                                 volume_groups |-> parsed.groups,
                                 buckets       |-> <<>>,
                                 bucket_index  |-> 0,
                                 ozone_policies |->
                                     <<acl_volume_policy(CurrentFid, parsed.users,
                                                         parsed.groups, OzoneService)>>]
                       /\ pc' = "fb_subdirs"
                       /\ UNCHANGED fid_index
    /\ UNCHANGED storeVars
    /\ UNCHANGED <<hashSeed, hdfs_policies, config, world, include_fids, exclude_fids,
                   acl_fallback_enabled, fids_to_process, all_ozone_policies,
                   converted_ozone_policies>>
    /\ UNCHANGED <<fid, ozone_policies, prev_ozone_policies>>
    /\ UNCHANGED permVars
    /\ UNCHANGED fnVars
    /\ UNCHANGED hiveVars

\* what convert_all_hdfs_policies does with the list the fallback returns
FallbackReturns(acl_policies, calls) ==
    /\ all_ozone_policies' = all_ozone_policies \o acl_policies
    /\ events' = events \o calls
                        \o [i \in DOMAIN acl_policies |-> Event("from_acls", CurrentFid)]
    /\ fid_index' = fid_index + 1
    /\ pc' = "conv_loop"

\* lines 796-821: the buckets and the bucket policy
FallbackSubdirs ==
    /\ pc = "fb_subdirs"
    /\ \E ok \in BOOLEAN :
           LET ls == get_hdfs_subdirs(FidPath(CurrentFid), ok)
           IN  IF ls.result = <<>>
               THEN /\ FallbackReturns(fb.ozone_policies, ls.calls)
                    /\ UNCHANGED fb
               ELSE /\ fb' = [fb EXCEPT
                                 !.buckets = ls.result,
                                 !.bucket_index = 1,
                                 !.ozone_policies =
                                     Append(@, acl_bucket_policy(CurrentFid, ls.result,
                                                                 fb.volume_users,
                                                                 fb.volume_groups,
                                                                 OzoneService))]
                    /\ events' = events \o ls.calls
                    /\ pc' = "fb_keys"
                    /\ UNCHANGED <<fid_index, all_ozone_policies>>
    /\ UNCHANGED storeVars
    /\ UNCHANGED <<hashSeed, hdfs_policies, config, world, include_fids, exclude_fids,
                   acl_fallback_enabled, fids_to_process, converted_ozone_policies>>
    /\ UNCHANGED <<fid, ozone_policies, prev_ozone_policies>>
    /\ UNCHANGED permVars
    /\ UNCHANGED fnVars
    /\ UNCHANGED hiveVars

\* lines 824-843: one turn of the loop over the buckets
FallbackKey ==
    /\ pc = "fb_keys"
    /\ fb.bucket_index <= Len(fb.buckets)
    /\ \E oks \in KinitPairs :
           LET bucket == fb.buckets[fb.bucket_index]
               facl   == get_hdfs_facl(FidPath(CurrentFid) \o <<"/">> \o bucket, oks[1], oks[2])
               items  == parse_hdfs_facl_full_permissions(facl.result)
           IN  /\ events' = events \o facl.calls
               /\ fb' = [fb EXCEPT
                            !.bucket_index = @ + 1,
                            !.ozone_policies =
                                IF facl.result # <<>> /\ items # <<>>
                                THEN Append(@, acl_key_policy(CurrentFid, bucket, items,
                                                              OzoneService))
                                ELSE @]
    /\ UNCHANGED storeVars
    /\ UNCHANGED <<pc, hashSeed, hdfs_policies, config, world, include_fids, exclude_fids,
                   acl_fallback_enabled, fids_to_process, fid_index, all_ozone_policies,
                   converted_ozone_policies>>
    /\ UNCHANGED <<fid, ozone_policies, prev_ozone_policies>>
    /\ UNCHANGED permVars
    /\ UNCHANGED fnVars
    /\ UNCHANGED hiveVars

\* lines 845-846 and 1149-1151: the fallback returns its policies
FallbackDone ==
    /\ pc = "fb_keys"
    /\ fb.bucket_index > Len(fb.buckets)
    /\ FallbackReturns(fb.ozone_policies, <<>>)
    /\ UNCHANGED storeVars
    /\ UNCHANGED <<hashSeed, hdfs_policies, config, world, include_fids, exclude_fids,
                   acl_fallback_enabled, fids_to_process, converted_ozone_policies, fb>>
    /\ UNCHANGED <<fid, ozone_policies, prev_ozone_policies>>
    /\ UNCHANGED permVars
    /\ UNCHANGED fnVars
    /\ UNCHANGED hiveVars

\* lines 1157-1159
ConvFinish ==
    /\ pc = "conv_loop"
    /\ fid_index > Len(fids_to_process)
    /\ converted_ozone_policies' = all_ozone_policies
    /\ pc' = "conv_done"
    /\ UNCHANGED storeVars
    /\ UNCHANGED <<hashSeed, hdfs_policies, config, world, include_fids, exclude_fids,
                   acl_fallback_enabled, fids_to_process, fid_index, all_ozone_policies,
                   fb, events>>
    /\ UNCHANGED <<fid, ozone_policies, prev_ozone_policies>>
    /\ UNCHANGED permVars
    /\ UNCHANGED fnVars
    /\ UNCHANGED hiveVars

ConvNext ==
    \/ ConvStart
    \/ ConvFromRanger
    \/ FallbackVolume
    \/ FallbackSubdirs
    \/ FallbackKey
    \/ FallbackDone
    \/ ConvFinish

(***************************************************************************)
(* Inputs of a conversion run                                              *)
(***************************************************************************)
\* a policy of another fid of which "fid2" is a string prefix
PolPrefix ==
    HdfsPolicy(17, <<"fid2", "0", "_", "raw">>,
               <<Path(<<<<"data">>, fid20, <<"raw">>, <<"k1">>>>)>>,
               <<Item(<<"bob">>, <<>>, <<>>, <<"read">>)>>)

\* a policy whose name holds "all"
PolAllNamed ==
    HdfsPolicy(18, <<"fid2", "_", "all", "_", "staff">>,
               <<Path(<<<<"data">>, fid2, <<"raw">>, <<"shared">>>>)>>,
               <<Item(<<>>, <<"staff">>, <<>>, <<"read", "execute">>)>>)

ConvCatalogue == {PolRoot, PolLeaf, PolPrefix, PolAllNamed, PolOther}

\* a line of getfacl output
Header(what, value) == <<"#", " ", what, ":", " ">> \o value
Entry(kind, name, perms) == <<kind, ":">> \o name \o <<":">> \o perms

perm_rwx == <<"r", "w", "x">>
perm_r_x == <<"r", "-", "x">>
perm_r__ == <<"r", "-", "-">>
perm__wx == <<"-", "w", "x">>
perm___x == <<"-", "-", "x">>
perm____ == <<"-", "-", "-">>

raw == <<"raw">>
work == <<"work">>
managed == <<"managed">>

\* the namespace of the fallback scenario (fid9: owner bob rwx, one child
\* managed granting group svc r-x) next to a directory fid2 with two children
WorldScenario ==
    [dirs |-> {FidPath(fid9), FidPath(fid9) \o <<"/">> \o managed,
               FidPath(fid2), FidPath(fid2) \o <<"/">> \o raw, FidPath(fid2) \o <<"/">> \o work},
     subdirs |-> (FidPath(fid9) :> <<managed>>) @@ (FidPath(fid2) :> <<raw, work>>),
     facl |->
        (FidPath(fid9) :>
            <<Header("file", FidPath(fid9)), Header("owner", <<"bob">>),
              Header("group", <<"hadoop">>), Entry("user", <<>>, perm_rwx),
              Entry("group", <<>>, perm____), Entry("other", <<>>, perm____)>>)
        @@ (FidPath(fid9) \o <<"/">> \o managed :>
            <<Header("owner", <<"bob">>), Header("group", <<"hadoop">>),
              Entry("user", <<>>, perm____), Entry("group", <<>>, perm____),
              Entry("group", <<"svc">>, perm_r_x), Entry("mask", <<>>, perm_r_x),
              Entry("other", <<>>, perm____)>>)
        @@ (FidPath(fid2) :>
            <<Header("owner", <<"alice">>), Header("group", <<"eng">>),
              Entry("user", <<>>, perm_rwx), Entry("user", <<"bob">>, perm_r__),
              Entry("group", <<>>, perm_r_x), Entry("other", <<>>, perm____)>>)
        @@ (FidPath(fid2) \o <<"/">> \o raw :>
            <<Header("owner", <<"alice">>), Header("group", <<"eng">>),
              Entry("user", <<>>, perm_rwx), Entry("user", <<"bob">>, perm___x),
              Entry("user", <<"alice">>, perm_r__),
              Entry("group", <<>>, perm_r_x), <<" ">>,
              Entry("default", <<"user", ":">>, perm_rwx)>>)]

\* fid9 exists but nobody holds the read bit; fid2 does not exist
WorldNoRead ==
    [dirs |-> {FidPath(fid9)},
     subdirs |-> (FidPath(fid9) :> <<managed>>),
     facl |-> (FidPath(fid9) :>
                  <<Header("owner", <<"bob">>), Header("group", <<"hadoop">>),
                    Entry("user", <<>>, perm__wx), Entry("group", <<>>, perm____)>>)]

\* fid9 is readable and has no child directory
WorldNoChild ==
    [dirs |-> {FidPath(fid9)},
     subdirs |-> (FidPath(fid9) :> <<>>),
     facl |-> (FidPath(fid9) :>
                  <<Header("owner", <<"bob">>), Header("group", <<"hadoop">>),
                    Entry("user", <<>>, perm_rwx), Entry("group", <<"svc">>, perm_r_x)>>)]

Worlds == {WorldScenario, WorldNoRead, WorldNoChild}

Configs ==
    {[ENABLE_HDFS_ACL_FALLBACK |-> e, KEYTAB_PATH |-> TRUE, PRINCIPAL |-> TRUE,
      keytab_exists |-> k] : e \in BOOLEAN, k \in BOOLEAN}

IncludeChoices == {<<>>, <<fid9>>, <<fid2, fid9>>}
ExcludeChoices == {<<>>, <<fid2>>}

ConvInit ==
    /\ StoreIdle
    /\ FnIdle
    /\ HiveIdle
    /\ pc = "conv_start"
    /\ hashSeed \in HashSeeds
    /\ hdfs_policies \in ListsOver(ConvCatalogue, MaxPolicies)
    /\ config \in Configs
    /\ world \in Worlds
    /\ include_fids \in IncludeChoices
    /\ exclude_fids \in ExcludeChoices
    /\ acl_fallback_enabled = FALSE
    /\ fids_to_process = <<>>
    /\ fid_index = 0
    /\ all_ozone_policies = <<>>
    /\ converted_ozone_policies = <<>>
    /\ fb = <<>>
    /\ events = <<>>
    /\ fid = <<>>
    /\ ozone_policies = <<>>
    /\ prev_ozone_policies = <<>>
    /\ hdfs_accesses = <<>>
    /\ posix_perms = <<>>
    /\ ozone_accesses = <<>>
    /\ posix_accesses = <<>>

SpecConv == ConvInit /\ [][ConvNext]_vars

NoSkipBranch ==
    InLoop /\ get_hdfs_policies_for_fid(CurrentFid, hdfs_policies) = <<>> => acl_fallback_enabled

(***************************************************************************)
(* Claims about the conversion run                                         *)
(***************************************************************************)
EventsOf(op, f) == {i \in DOMAIN events : events[i].op = op /\ events[i].path = f}

\* the input holds a policy with a path whose root identifier is exactly f
HasSourcePolicy(f) ==
    \E i \in DOMAIN hdfs_policies : \E pth \in Range(PathValues(hdfs_policies[i])) :
        /\ Len(Parts(pth)) >= 3
        /\ Parts(pth)[2] = <<"data">>
        /\ Parts(pth)[3] = f

\* C6: for every processed fid the ACL fallback is invoked only when no source
\* policy is found for it and the fallback is enabled; translation and
\* fallback never both run, and never both contribute target policies, for
\* one fid in one pass.
C6_FallbackPrecedence ==
    \A f \in Range(FidOrder) :
        /\ EventsOf("fallback", f) # {} =>
               /\ ~HasSourcePolicy(f)
               /\ config.ENABLE_HDFS_ACL_FALLBACK
               /\ config.keytab_exists
        /\ EventsOf("fallback", f) = {} \/ EventsOf("convert", f) = {}
        /\ EventsOf("from_acls", f) = {} \/ EventsOf("from_ranger", f) = {}
        /\ EventsOf("from_acls", f) # {} => EventsOf("fallback", f) # {}
        /\ Cardinality(EventsOf("fallback", f)) <= 1
        /\ Cardinality(EventsOf("convert", f)) <= 1

\* C6 witness: a finished pass in which one fid was translated from its
\* policies and another went through the fallback, both contributing
C6_Witness ==
    /\ pc = "conv_done"
    /\ EventsOf("from_ranger", fid2) # {}
    /\ EventsOf("from_acls", fid9) # {}
    /\ Len(converted_ozone_policies) >= 5

(***************************************************************************)
(* Hive policies: selection and cloning                                    *)
(*                                                                         *)
(* Names, database names and urls are sequences of tokens, as paths are:   *)
(* the separators "/", ":", "_", "=", "," and " " are tokens of their own, *)
(* and no other token holds one of them.                                   *)
(***************************************************************************)

\* str.lower() on one token: the tokens of the inputs that hold capitals
LowerTable ==
    [t \in {"Default", "ALL", "Finance", "Sales", "INFORMATION", "SCHEMA",
           "YES", "Yes", "Y", "NO"} |->
        CASE t = "Default" -> "default"
          [] t = "ALL" -> "all"
          [] t = "Finance" -> "finance"
          [] t = "Sales" -> "sales"
          [] t = "INFORMATION" -> "information"
          [] t = "SCHEMA" -> "schema"
          [] t \in {"YES", "Yes"} -> "yes"
          [] t = "Y" -> "y"
          [] t = "NO" -> "no"]

Lower(t) == IF t \in DOMAIN LowerTable THEN LowerTable[t] ELSE t

LowerSeq(s) == [i \in DOMAIN s |-> Lower(s[i])]

\* the lower-case tokens of the inputs with the substring "all"
TokensWithAll == {"all", "wallet"}

\* sep.join(list)
RECURSIVE Join(_, _)
Join(list, sep) ==
    IF list = <<>> THEN <<>>
    ELSE IF Len(list) = 1 THEN list[1]
    ELSE list[1] \o <<sep>> \o Join(Tail(list), sep)

\* str.replace(old, new)
RECURSIVE Replace(_, _, _)
Replace(s, old, new) ==
    IF Len(s) < Len(old) THEN s
    ELSE IF StartsWith(s, old) THEN new \o Replace(SubSeq(s, Len(old) + 1, Len(s)), old, new)
    ELSE <<Head(s)>> \o Replace(Tail(s), old, new)

ResourceValues(policy, kind) ==
    Get(Get(Get(policy, "resources", <<>>), kind, <<>>), "values", <<>>)

\* lines 238-243
has_url_resource(policy) == ResourceValues(policy, "url") # <<>>

\* is_default_policy looking at the name only
is_default_policy_nameonly(policy) ==
    \E i \in DOMAIN Get(policy, "name", <<>>) :
        Lower(Get(policy, "name", <<>>)[i]) \in TokensWithAll

\* lines 322-339
is_default_policy(policy) ==
    LET policy_name == LowerSeq(Get(policy, "name", <<>>))
        db_values   == ResourceValues(policy, "database")
        lowered     == {LowerSeq(db_values[i]) : i \in DOMAIN db_values}
    IN  \/ \E i \in DOMAIN policy_name : policy_name[i] \in TokensWithAll
        \/ <<"default">> \in lowered
        \/ <<"information", "_", "schema">> \in lowered

Layers == {<<"raw">>, <<"managed">>, <<"work">>}

NoMatch == [matched |-> FALSE, fid |-> <<>>, layer |-> <<>>, db |-> <<>>]

\* scheme://[^/]+/data/([^/]+)/(raw|managed|work)/hive/([^/\s]+) tried at
\* position i of url; the /data segment is there for hdfs only (off = 1)
MatchAt(url, i, scheme, off) ==
    LET segs == Split(SubSeq(url, i + 4, Len(url)), "/")
    IN  IF /\ StartsWith(SubSeq(url, i, Len(url)), <<scheme, ":", "/", "/">>)
           /\ Len(segs) >= 5 + off
           /\ segs[1] # <<>>
           /\ (off = 1 => segs[2] = <<"data">>)
           /\ segs[2 + off] # <<>>
           /\ segs[3 + off] \in Layers
           /\ segs[4 + off] = <<"hive">>
           /\ TakeUntil(segs[5 + off], Whitespace) # <<>>
        THEN [matched |-> TRUE, fid |-> segs[2 + off], layer |-> segs[3 + off],
              db |-> TakeUntil(segs[5 + off], Whitespace)]
        ELSE NoMatch

\* re.search: the leftmost position where the pattern matches
Search(url, scheme, off) ==
    LET at == {i \in DOMAIN url : MatchAt(url, i, scheme, off).matched}
    IN  IF at = {} THEN NoMatch
        ELSE MatchAt(url, CHOOSE i \in at : \A j \in at : i <= j, scheme, off)

\* lines 355-356 and 451-452
hdfs_match(url) == Search(url, "hdfs", 1)

\* lines 364-365
ofs_match(url) == Search(url, "ofs", 0)

\* lines 353-370: the database names the urls add to db_values
RECURSIVE url_db_values(_, _)
url_db_values(db_values, url_values) ==
    IF url_values = <<>> THEN db_values
    ELSE LET url == Head(url_values)
             h   == hdfs_match(url)
             o   == ofs_match(url)
             nxt == IF h.matched THEN AppendNew(db_values, LowerSeq(h.db))
                    ELSE IF o.matched THEN AppendNew(db_values, LowerSeq(o.db))
                    ELSE db_values
         IN  url_db_values(nxt, Tail(url_values))

LowerAll(list) == [i \in DOMAIN list |-> LowerSeq(list[i])]

\* matches_database_filter with the include list looked at before the exclude list
matches_database_filter_includefirst(policy, include, exclude) ==
    LET db_values == url_db_values(LowerAll(ResourceValues(policy, "database")),
                                   ResourceValues(policy, "url"))
    IN  IF db_values = <<>> THEN include = <<>>
        ELSE IF include # <<>> THEN Range(db_values) \cap Range(LowerAll(include)) # {}
        ELSE ~(exclude # <<>> /\ Range(db_values) \cap Range(LowerAll(exclude)) # {})

\* lines 341-391
matches_database_filter(policy, include, exclude) ==
    LET db_values == url_db_values(LowerAll(ResourceValues(policy, "database")),
                                   ResourceValues(policy, "url"))
    IN  IF db_values = <<>> THEN include = <<>>
        ELSE IF exclude # <<>> /\ Range(db_values) \cap Range(LowerAll(exclude)) # {} THEN FALSE
        ELSE IF include # <<>> /\ Range(db_values) \cap Range(LowerAll(include)) = {} THEN FALSE
        ELSE TRUE

\* filter_hive_policies without its default-policy test
filter_hive_policies_nodefault(policies, include, exclude) ==
    SelectSeq(policies, LAMBDA policy : matches_database_filter(policy, include, exclude))

\* lines 393-414
filter_hive_policies(policies, include, exclude) ==
    SelectSeq(policies, LAMBDA policy :
        /\ ~is_default_policy(policy)
        /\ matches_database_filter(policy, include, exclude))

\* a cleanup that takes an empty include list for a filter nothing matches
CleanupDeletes_strict(policy, include) ==
    /\ ~is_default_policy(policy)
    /\ ~has_url_resource(policy)
    /\ include # <<>>
    /\ matches_database_filter(policy, include, <<>>)

\* lines 255-276: the branch of the loop that appends to policies_to_delete
CleanupDeletes(policy, include) ==
    /\ ~is_default_policy(policy)
    /\ ~has_url_resource(policy)
    /\ (include # <<>> => matches_database_filter(policy, include, <<>>))

\* get_policies_for_cleanup without its url test
get_policies_for_cleanup_nourl(policies, include) ==
    LET deletes(policy) ==
            /\ ~is_default_policy(policy)
            /\ (include # <<>> => matches_database_filter(policy, include, <<>>))
    IN  [policies_to_delete |-> SelectSeq(policies, deletes),
         policies_to_keep   |-> SelectSeq(policies, LAMBDA policy : ~deletes(policy))]

\* lines 245-283
get_policies_for_cleanup(policies, include) ==
    [policies_to_delete |-> SelectSeq(policies, LAMBDA policy : CleanupDeletes(policy, include)),
     policies_to_keep   |-> SelectSeq(policies, LAMBDA policy : ~CleanupDeletes(policy, include))]

HasValues(resources, kind) == kind \in DOMAIN resources /\ "values" \in DOMAIN resources[kind]

\* clone_url leaving the url as it is
clone_url_keep(raw_url, ozone_service_id) == Strip(raw_url)

\* lines 449-465: one url of the clone
clone_url(raw_url, ozone_service_id) ==
    LET url   == Strip(raw_url)
        match == hdfs_match(url)
    IN  IF match.matched
        THEN <<"ofs", ":", "/", "/">> \o ozone_service_id \o <<"/">> \o match.fid \o <<"/">>
                 \o match.layer \o <<"/", "hive", "/">> \o match.db
        ELSE Replace(Replace(url, <<"hdfs", ":", "/", "/">>,
                             <<"ofs", ":", "/", "/">> \o ozone_service_id \o <<"/">>),
                     <<"/", "data", "/">>, <<"/">>)

\* another literal in the place of the wildcard
WildcardPercent == << <<"%">> >>

Wildcard == << <<"*">> >>

\* lines 416-514
clone_hive_policy(policy, ozone_prefix, ozone_service_id) ==
    LET cloned_policy == [k \in DOMAIN policy \ {"id", "guid", "version"} |-> policy[k]]
        original_name == Get(cloned_policy, "name", <<>>)
        resources     == Get(cloned_policy, "resources", <<>>)
        values(kind)  == resources[kind]["values"]
        new_db_values == [i \in DOMAIN values("database") |->
                             ozone_prefix \o <<"_">> \o values("database")[i]]
        new_urls      == [i \in DOMAIN values("url") |->
                             clone_url(values("url")[i], ozone_service_id)]
        db_part  == IF HasValues(resources, "database")
                    THEN << <<"db", "=">> \o Join(new_db_values, ",") >> ELSE <<>>
        url_part == IF HasValues(resources, "url") /\ new_urls # <<>>
                    THEN << <<"url", "=">> \o new_urls[1] >> ELSE <<>>
        tbl_part == IF /\ HasValues(resources, "table")
                       /\ values("table") # <<>>
                       /\ values("table") # Wildcard
                    THEN << <<"tbl", "=">> \o Join(values("table"), ",") >> ELSE <<>>
        col_part == IF /\ HasValues(resources, "column")
                       /\ values("column") # <<>>
                       /\ values("column") # Wildcard
                    THEN << <<"col", "=">> \o Join(values("column"), ",") >> ELSE <<>>
        udf_part == IF HasValues(resources, "udf") /\ values("udf") # <<>>
                    THEN << <<"udf", "=">> \o Join(values("udf"), ",") >> ELSE <<>>
        new_name_parts == db_part \o url_part \o tbl_part \o col_part \o udf_part
        new_resources ==
            [k \in DOMAIN resources |->
                IF k = "database" /\ HasValues(resources, k)
                THEN [resources[k] EXCEPT !["values"] = new_db_values]
                ELSE IF k = "url" /\ HasValues(resources, k)
                THEN [resources[k] EXCEPT !["values"] = new_urls]
                ELSE resources[k]]
    IN  [k \in (DOMAIN cloned_policy) \cup {"name", "description"} |->
            CASE k = "name" ->
                    IF new_name_parts # <<>> THEN Join(new_name_parts, ",")
                    ELSE ozone_prefix \o <<"_">> \o original_name
              [] k = "description" ->
                    <<"Cloned from '">> \o original_name
                        \o <<"' for Ozone migration with prefix ">> \o ozone_prefix
              [] k = "resources" -> new_resources
              [] OTHER -> cloned_policy[k]]

\* lines 516-533
create_cloned_hive_policies(policies, ozone_prefix, ozone_service_id) ==
    [i \in DOMAIN policies |-> clone_hive_policy(policies[i], ozone_prefix, ozone_service_id)]

(***************************************************************************)
(* Hive inputs                                                             *)
(***************************************************************************)
Resource(values) == [values |-> values, isExcludes |-> FALSE, isRecursive |-> FALSE]

HivePolicy(id, name, resources, items) ==
    [id |-> id, guid |-> <<"guid", "-">> \o name, version |-> 1, name |-> name,
     service |-> "cm_hive", isEnabled |-> TRUE, resources |-> resources,
     policyItems |-> items]

Url(scheme, segs) == <<scheme, ":", "/">> \o Path(segs)

Star == <<"*">>

\* Ranger's catch-all policy
HiveAll ==
    HivePolicy(1, <<"all", " ", "-", " ", "database", ",", " ", "table", ",", " ", "column">>,
               [database |-> Resource(<<Star>>), table |-> Resource(<<Star>>),
                column |-> Resource(<<Star>>)],
               <<Item(<<"hive">>, <<>>, <<>>, <<"select">>)>>)

\* a policy over the reserved database, written with a capital
HiveDefaultDb ==
    HivePolicy(2, <<"public", "_", "db">>,
               [database |-> Resource(<< <<"Default">> >>), table |-> Resource(<<Star>>),
                column |-> Resource(<<Star>>)],
               <<Item(<<>>, <<"public">>, <<>>, <<"select">>)>>)

HiveSales ==
    HivePolicy(3, <<"sales", "_", "select">>,
               [database |-> Resource(<< <<"sales">> >>), table |-> Resource(<<Star>>),
                column |-> Resource(<<Star>>)],
               <<Item(<<"alice">>, <<"eng">>, <<>>, <<"select">>)>>)

HiveFinance ==
    HivePolicy(4, <<"finance", "_", "orders">>,
               [database |-> Resource(<< <<"finance">>, <<"sales">> >>),
                table |-> Resource(<< <<"orders">> >>),
                column |-> Resource(<< <<"amount">>, <<"id">> >>)],
               <<Item(<<"bob">>, <<>>, <<"admin">>, <<"select", "write">>)>>)

\* a url policy in the legacy shape, the database written with a capital
HiveUrl ==
    HivePolicy(5, <<"fin", "_", "url">>,
               [url |-> Resource(<<Url("hdfs", << <<"ns1">>, <<"data">>, fid2, <<"raw">>,
                                                  <<"hive">>, <<"Finance">> >>)>>)],
               <<Item(<<"carol">>, <<>>, <<>>, <<"read", "write">>)>>)

\* a url policy with one url in no recognised shape and one with blanks around it
HiveUrlOdd ==
    HivePolicy(6, <<"odd", "_", "url">>,
               [url |-> Resource(<<Url("hdfs", << <<"ns1">>, <<"data">>, <<"tmp">> >>),
                                   <<" ">> \o Url("hdfs", << <<"ns1">>, <<"data">>, fid9,
                                                            <<"work">>, <<"hive">>,
                                                            <<"sales">> >>) \o <<" ">> >>)],
               <<Item(<<"dave">>, <<>>, <<>>, <<"read">>)>>)

\* a name that holds "all" inside another word
HiveWallet ==
    HivePolicy(7, <<"wallet", "_", "rw">>,
               [database |-> Resource(<< <<"wallet">> >>), table |-> Resource(<<Star>>),
                udf |-> Resource(<<Star>>)],
               <<Item(<<"erin">>, <<>>, <<>>, <<"select">>)>>)

HiveCatalogue == {HiveAll, HiveDefaultDb, HiveSales, HiveFinance, HiveUrl, HiveUrlOdd, HiveWallet}

IncludeDatabases == {<<>>, << <<"sales">> >>, << <<"Finance">>, <<"wallet">> >>}

ExcludeDatabases == {<<>>, << <<"finance">> >>}

OzonePrefix == <<"oz">>

OzoneServiceId == <<"ozone1">>

(***************************************************************************)
(* main, Hive mode: the export is given; the action argument chooses       *)
(* between the cleanup listing and filter-then-clone                       *)
(***************************************************************************)
HiveInit ==
    /\ StoreIdle
    /\ FnIdle
    /\ pc = "hive_start"
    /\ hashSeed = 0
    \* line 1443: main goes on with a non-empty export only
    /\ hive_policies \in ListsOver(HiveCatalogue, MaxPolicies) \ {<<>>}
    /\ include_databases \in IncludeDatabases
    /\ exclude_databases \in ExcludeDatabases
    /\ policies_to_delete = <<>>
    /\ policies_to_keep = <<>>
    /\ filtered_hive_policies = <<>>
    /\ cloned_hive_policies = <<>>
    /\ hdfs_accesses = <<>>
    /\ posix_perms = <<>>
    /\ ozone_accesses = <<>>
    /\ posix_accesses = <<>>
    /\ fid = <<>>
    /\ hdfs_policies = <<>>
    /\ ozone_policies = <<>>
    /\ prev_ozone_policies = <<>>
    /\ config = <<>>
    /\ world = <<>>
    /\ include_fids = <<>>
    /\ exclude_fids = <<>>
    /\ acl_fallback_enabled = FALSE
    /\ fids_to_process = <<>>
    /\ fid_index = 0
    /\ all_ozone_policies = <<>>
    /\ converted_ozone_policies = <<>>
    /\ fb = <<>>
    /\ events = <<>>

\* lines 1454-1460: action cleanup
HiveCleanup ==
    /\ pc = "hive_start"
    /\ LET r == get_policies_for_cleanup(hive_policies, include_databases)
       IN  /\ policies_to_delete' = r.policies_to_delete
           /\ policies_to_keep' = r.policies_to_keep
    /\ pc' = "hive_cleanup_listed"
    /\ UNCHANGED storeVars
    /\ UNCHANGED <<hive_policies, include_databases, exclude_databases,
                   filtered_hive_policies, cloned_hive_policies>>
    /\ UNCHANGED hashSeed
    /\ UNCHANGED permVars
    /\ UNCHANGED fnVars
    /\ UNCHANGED synthVars
    /\ UNCHANGED convVars

\* lines 1523-1524: actions filter, clone, convert, import
HiveFilter ==
    /\ pc = "hive_start"
    /\ filtered_hive_policies' =
           filter_hive_policies(hive_policies, include_databases, exclude_databases)
    /\ pc' = "hive_filtered"
    /\ UNCHANGED storeVars
    /\ UNCHANGED <<hive_policies, include_databases, exclude_databases,
                   policies_to_delete, policies_to_keep, cloned_hive_policies>>
    /\ UNCHANGED hashSeed
    /\ UNCHANGED permVars
    /\ UNCHANGED fnVars
    /\ UNCHANGED synthVars
    /\ UNCHANGED convVars

\* lines 1531-1533: actions clone, convert, import
HiveClone ==
    /\ pc = "hive_filtered"
    /\ cloned_hive_policies' =
           create_cloned_hive_policies(filtered_hive_policies, OzonePrefix, OzoneServiceId)
    /\ pc' = "hive_cloned"
    /\ UNCHANGED storeVars
    /\ UNCHANGED <<hive_policies, include_databases, exclude_databases,
                   policies_to_delete, policies_to_keep, filtered_hive_policies>>
    /\ UNCHANGED hashSeed
    /\ UNCHANGED permVars
    /\ UNCHANGED fnVars
    /\ UNCHANGED synthVars
    /\ UNCHANGED convVars

HiveNext ==
    \/ HiveCleanup
    \/ HiveFilter
    \/ HiveClone

SpecHive == HiveInit /\ [][HiveNext]_vars

\* main in mode hive or in mode hdfs
MainInit == HiveInit \/ ConvInit

MainNext ==
    \/ HiveCleanup
    \/ HiveFilter
    \/ HiveClone
    \/ ConvStart
    \/ ConvFromRanger
    \/ FallbackVolume
    \/ FallbackSubdirs
    \/ FallbackKey
    \/ FallbackDone
    \/ ConvFinish

SpecMain == MainInit /\ [][MainNext]_vars

(***************************************************************************)
(* Claims about boilerplate and url-bearing policies                       *)
(***************************************************************************)
Boilerplate(policies) == {i \in DOMAIN policies : is_default_policy(policies[i])}

\* the name a clone's description gives as its origin
ClonedFrom(cloned) ==
    LET d == cloned.description
        k == CHOOSE k \in DOMAIN d : d[k] = "' for Ozone migration with prefix "
    IN  SubSeq(d, 2, k - 1)

\* no boilerplate policy is in the filter's result, and every clone comes from
\* a policy of the filter's result, none from a boilerplate policy
HiveBoilerplateExcluded ==
    /\ pc \in {"hive_filtered", "hive_cloned"} =>
           \A i \in Boilerplate(hive_policies) :
               hive_policies[i] \notin Range(filtered_hive_policies)
    /\ pc = "hive_cloned" =>
           /\ Len(cloned_hive_policies) = Len(filtered_hive_policies)
           /\ \A j \in DOMAIN cloned_hive_policies :
                  /\ ClonedFrom(cloned_hive_policies[j]) = filtered_hive_policies[j].name
                  /\ \A i \in Boilerplate(hive_policies) :
                         ClonedFrom(cloned_hive_policies[j]) # hive_policies[i].name

PrincipalsOf(policy) ==
    UNION {Range(policy.policyItems[j].users) \cup Range(policy.policyItems[j].groups)
               \cup Range(policy.policyItems[j].roles) : j \in DOMAIN policy.policyItems}

\* the principals and the paths that boilerplate HDFS policies alone bring in
BoilerplateOnlyPrincipals ==
    UNION {PrincipalsOf(hdfs_policies[i]) : i \in Boilerplate(hdfs_policies)}
        \ UNION {PrincipalsOf(hdfs_policies[i]) :
                     i \in DOMAIN hdfs_policies \ Boilerplate(hdfs_policies)}

BoilerplateOnlyPaths ==
    UNION {Range(PathValues(hdfs_policies[i])) : i \in Boilerplate(hdfs_policies)}
        \ UNION {Range(PathValues(hdfs_policies[i])) :
                     i \in DOMAIN hdfs_policies \ Boilerplate(hdfs_policies)}

\* the HDFS path a key policy stands for
SourcePath(p) ==
    <<"/", "data", "/">> \o p.resources.volume.values[1] \o <<"/">>
        \o p.resources.bucket.values[1] \o <<"/">> \o p.resources.key.values[1]

UrlBearing(policy) ==
    /\ "url" \in DOMAIN policy.resources
    /\ policy.resources.url.values # <<>>

Occurs(list, x) == Cardinality({i \in DOMAIN list : list[i] = x})

\* C10: get_policies_for_cleanup puts no boilerplate policy and no policy with
\* a non-empty url resource in the to-delete list; each of them is in the
\* to-keep list as it was in the input; and every input policy is in exactly
\* one of the two lists.
C10_CleanupKeeps ==
    pc = "hive_cleanup_listed" =>
        /\ \A i \in DOMAIN hive_policies :
               is_default_policy(hive_policies[i]) \/ UrlBearing(hive_policies[i]) =>
                   /\ hive_policies[i] \notin Range(policies_to_delete)
                   /\ hive_policies[i] \in Range(policies_to_keep)
        /\ Len(policies_to_delete) + Len(policies_to_keep) = Len(hive_policies)
        /\ \A i \in DOMAIN hive_policies :
               Occurs(policies_to_delete, hive_policies[i])
                   + Occurs(policies_to_keep, hive_policies[i]) = 1

\* C10 witness: a listing over an export with a boilerplate policy and a url
\* policy that is not boilerplate, with something to delete
C10_Witness ==
    /\ pc = "hive_cleanup_listed"
    /\ Boilerplate(hive_policies) # {}
    /\ \E i \in DOMAIN hive_policies \ Boilerplate(hive_policies) : UrlBearing(hive_policies[i])
    /\ policies_to_delete # <<>>

(***************************************************************************)
(* The functions of one Hive policy, each called on its own                *)
(***************************************************************************)
\* the example of a catch-all name
HiveAllDatabase ==
    HivePolicy(21, <<"all", " ", "-", " ", "database">>,
               [database |-> Resource(<<Star>>)],
               <<Item(<<"hive">>, <<>>, <<>>, <<"select">>)>>)

\* the example of a policy that is not boilerplate
HiveFinanceSelect ==
    HivePolicy(22, <<"finance", "_", "select">>,
               [database |-> Resource(<< <<"finance">> >>)],
               <<Item(<<"bob">>, <<>>, <<>>, <<"select">>)>>)

\* capitals in the name and in the reserved database name
HiveCapitals ==
    HivePolicy(23, <<"ALL", "_", "users">>,
               [database |-> Resource(<< <<"hr">> >>)],
               <<Item(<<>>, <<"hr">>, <<>>, <<"select">>)>>)

HiveInfoSchema ==
    HivePolicy(24, <<"meta", "_", "read">>,
               [database |-> Resource(<< <<"hr">>, <<"INFORMATION", "_", "SCHEMA">> >>)],
               <<Item(<<>>, <<"hr">>, <<>>, <<"select">>)>>)

\* wildcards in table, column and udf of a policy that is not boilerplate
HiveWildcards ==
    HivePolicy(25, <<"hr", "_", "fn">>,
               [database |-> Resource(<< <<"hr">> >>), table |-> Resource(<<Star>>),
                column |-> Resource(<<Star>>), udf |-> Resource(<<Star>>)],
               <<Item(<<"erin">>, <<>>, <<>>, <<"select">>)>>)

\* specific udf and table values, a wildcard column
HiveUdf ==
    HivePolicy(26, <<"hr", "_", "udf">>,
               [database |-> Resource(<< <<"hr">> >>),
                table |-> Resource(<< <<"emp">>, Star >>),
                column |-> Resource(<<Star>>),
                udf |-> Resource(<< <<"mask">> >>)],
               <<Item(<<"erin">>, <<"hr">>, <<"admin">>, <<"select", "write">>)>>)

\* a url in the target shape, and one in no recognised shape
HiveOfsUrl ==
    HivePolicy(27, <<"ofs", "_", "url">>,
               [url |-> Resource(<<Url("ofs", << <<"ozone1">>, fid2, <<"managed">>,
                                                 <<"hive">>, <<"Sales">>, <<"t1">> >>)>>)],
               <<Item(<<"carol">>, <<>>, <<>>, <<"read">>)>>)

HiveUnknownUrl ==
    HivePolicy(28, <<"tmp", "_", "url">>,
               [url |-> Resource(<<Url("hdfs", << <<"ns1">>, <<"data">>, fid2, <<"tmp">>,
                                                  <<"hive">>, <<"sales">> >>),
                                   Url("s3a", << <<"bucket">>, <<"x">> >>)>>)],
               <<Item(<<"dave">>, <<>>, <<>>, <<"read">>)>>)

\* a policy with neither database nor url, and one with no resources and no name
HiveNoDatabase ==
    HivePolicy(29, <<"global", "_", "fn">>, [udf |-> Resource(<< <<"mask">> >>)],
               <<Item(<<"erin">>, <<>>, <<>>, <<"select">>)>>)

HiveBare == [id |-> 30, service |-> "cm_hive", policyItems |-> <<>>]

FnCatalogue ==
    HiveCatalogue \cup {HiveAllDatabase, HiveFinanceSelect, HiveCapitals, HiveInfoSchema,
                        HiveWildcards, HiveUdf, HiveOfsUrl, HiveUnknownUrl, HiveNoDatabase,
                        HiveBare}

FnIncludes == IncludeDatabases \cup {<< <<"hr">> >>}

FnExcludes == ExcludeDatabases \cup {<< <<"Sales">> >>}

HiveFnInit ==
    /\ StoreIdle
    /\ pc = "fn_start"
    /\ hive_policy \in FnCatalogue
    /\ include_databases \in FnIncludes
    /\ exclude_databases \in FnExcludes
    /\ verdict = <<>>
    /\ clone_result = <<>>
    /\ src_path = <<>>
    /\ path_result = <<>>
    /\ hashSeed = 0
    /\ hive_policies = <<>>
    /\ policies_to_delete = <<>>
    /\ policies_to_keep = <<>>
    /\ filtered_hive_policies = <<>>
    /\ cloned_hive_policies = <<>>
    /\ hdfs_accesses = <<>>
    /\ posix_perms = <<>>
    /\ ozone_accesses = <<>>
    /\ posix_accesses = <<>>
    /\ fid = <<>>
    /\ hdfs_policies = <<>>
    /\ ozone_policies = <<>>
    /\ prev_ozone_policies = <<>>
    /\ config = <<>>
    /\ world = <<>>
    /\ include_fids = <<>>
    /\ exclude_fids = <<>>
    /\ acl_fallback_enabled = FALSE
    /\ fids_to_process = <<>>
    /\ fid_index = 0
    /\ all_ozone_policies = <<>>
    /\ converted_ozone_policies = <<>>
    /\ fb = <<>>
    /\ events = <<>>

\* is_default_policy, has_url_resource and matches_database_filter on one policy
Select ==
    /\ pc = "fn_start"
    /\ verdict' = [default |-> is_default_policy(hive_policy),
                   url     |-> has_url_resource(hive_policy),
                   matches |-> matches_database_filter(hive_policy, include_databases,
                                                       exclude_databases)]
    /\ pc' = "select_done"
    /\ UNCHANGED storeVars
    /\ UNCHANGED <<hive_policy, clone_result, src_path, path_result>>
    /\ UNCHANGED hashSeed
    /\ UNCHANGED permVars
    /\ UNCHANGED synthVars
    /\ UNCHANGED convVars
    /\ UNCHANGED hiveVars

\* lines 461-462: the urls the url loop warns about
url_warnings(policy) ==
    LET resources == Get(policy, "resources", <<>>)
        urls      == IF HasValues(resources, "url") THEN resources["url"]["values"] ELSE <<>>
        stripped  == [i \in DOMAIN urls |-> Strip(urls[i])]
    IN  SelectSeq(stripped, LAMBDA url : ~hdfs_match(url).matched)

\* clone_hive_policy on a shallow copy: the resource descriptors are shared
\* with the argument
clone_hive_policy_call_shallow(policy, ozone_prefix, ozone_service_id) ==
    LET cloned == clone_hive_policy(policy, ozone_prefix, ozone_service_id)
    IN  [policy        |-> IF "resources" \in DOMAIN policy
                           THEN [policy EXCEPT !["resources"] = cloned.resources]
                           ELSE policy,
         cloned_policy |-> cloned]

\* lines 418-419 and 514: the clone is built on a deep copy, so the call hands
\* back its argument as it was, next to the clone
clone_hive_policy_call(policy, ozone_prefix, ozone_service_id) ==
    [policy        |-> policy,
     cloned_policy |-> clone_hive_policy(policy, ozone_prefix, ozone_service_id)]

\* clone_hive_policy on one policy
CloneOne ==
    /\ pc = "fn_start"
    /\ LET r == clone_hive_policy_call(hive_policy, OzonePrefix, OzoneServiceId)
       IN  /\ hive_policy' = r.policy
           /\ clone_result' = r.cloned_policy
    /\ verdict' = [warnings |-> url_warnings(hive_policy)]
    /\ pc' = "clone_done"
    /\ UNCHANGED storeVars
    /\ UNCHANGED <<src_path, path_result>>
    /\ UNCHANGED hashSeed
    /\ UNCHANGED permVars
    /\ UNCHANGED synthVars
    /\ UNCHANGED convVars
    /\ UNCHANGED hiveVars

HiveFnNext ==
    \/ Select
    \/ CloneOne

SpecHiveFn == HiveFnInit /\ [][HiveFnNext]_vars

(***************************************************************************)
(* Claims about the functions of one Hive policy                           *)
(***************************************************************************)
\* the database name a url of a recognised shape gives: the segments after
\* scheme://host(/data)/root/layer/hive, read off the url split at "/"
ShapeAt(segs, k, scheme, off) ==
    /\ k + 6 + off <= Len(segs)
    /\ Len(segs[k]) >= 2
    /\ SubSeq(segs[k], Len(segs[k]) - 1, Len(segs[k])) = <<scheme, ":">>
    /\ segs[k + 1] = <<>>
    /\ segs[k + 2] # <<>>
    /\ (off = 1 => segs[k + 3] = <<"data">>)
    /\ segs[k + 3 + off] # <<>>
    /\ segs[k + 4 + off] \in {<<"raw">>, <<"managed">>, <<"work">>}
    /\ segs[k + 5 + off] = <<"hive">>
    /\ segs[k + 6 + off] # <<>>
    /\ segs[k + 6 + off][1] \notin {" ", "TAB"}

FirstWord(seg) ==
    LET stops == {i \in DOMAIN seg : seg[i] \in {" ", "TAB"}}
    IN  IF stops = {} THEN seg
        ELSE SubSeq(seg, 1, (CHOOSE i \in stops : \A j \in stops : i <= j) - 1)

\* the names inferred from one url: the legacy shape first, the target shape
\* when the legacy shape is not there
InferredNames(url) ==
    LET segs   == Split(url, "/")
        at(scheme, off) == {k \in DOMAIN segs : ShapeAt(segs, k, scheme, off)}
        first(S) == CHOOSE k \in S : \A j \in S : k <= j
    IN  IF at("hdfs", 1) # {} THEN {FirstWord(segs[first(at("hdfs", 1)) + 7])}
        ELSE IF at("ofs", 0) # {} THEN {FirstWord(segs[first(at("ofs", 0)) + 6])}
        ELSE {}

\* lower case, letter by letter, of the names the inputs use
LowerName(name) ==
    [i \in DOMAIN name |->
        CASE name[i] = "Finance" -> "finance"
          [] name[i] = "Sales" -> "sales"
          [] name[i] = "Default" -> "default"
          [] name[i] = "INFORMATION" -> "information"
          [] name[i] = "SCHEMA" -> "schema"
          [] name[i] = "ALL" -> "all"
          [] OTHER -> name[i]]

LowerNames(list) == {LowerName(list[i]) : i \in DOMAIN list}

\* the effective set E of a policy
EffectiveNames(p) ==
    LET declared == IF "resources" \in DOMAIN p /\ "database" \in DOMAIN p.resources
                    THEN p.resources.database.values ELSE <<>>
        urls     == IF "resources" \in DOMAIN p /\ "url" \in DOMAIN p.resources
                    THEN p.resources.url.values ELSE <<>>
    IN  LowerNames(declared)
            \cup UNION {{LowerName(n) : n \in InferredNames(urls[i])} : i \in DOMAIN urls}

\* C11: matches_database_filter returns false when E is empty and an include
\* filter is active, true when E is empty and none is active; otherwise true
\* exactly when E is disjoint from exclude and (no include filter is active or
\* E meets include), names compared case-insensitively.
C11_FilterDecision ==
    pc = "select_done" =>
        LET E == EffectiveNames(hive_policy)
            active == include_databases # <<>>
        IN  verdict.matches =
                IF E = {} THEN ~active
                ELSE /\ E \cap LowerNames(exclude_databases) = {}
                     /\ (~active \/ E \cap LowerNames(include_databases) # {})

\* C11 witness: a policy whose names meet both the include and the exclude
\* list was turned down
C11_Witness ==
    /\ pc = "select_done"
    /\ EffectiveNames(hive_policy) \cap LowerNames(include_databases) # {}
    /\ EffectiveNames(hive_policy) \cap LowerNames(exclude_databases) # {}
    /\ verdict.matches = FALSE

\* the tokens of the inputs that hold "all" in some mix of capitals
SpellingsWithAll == {"all", "ALL", "wallet"}

\* the reserved database names in the spellings of the inputs
ReservedSpellings ==
    {<<"default">>, <<"Default">>, <<"information", "_", "schema">>,
     <<"INFORMATION", "_", "SCHEMA">>}

IsBoilerplate(p) ==
    \/ /\ "name" \in DOMAIN p
       /\ \E i \in DOMAIN p.name : p.name[i] \in SpellingsWithAll
    \/ /\ "resources" \in DOMAIN p
       /\ "database" \in DOMAIN p.resources
       /\ \E i \in DOMAIN p.resources.database.values :
              p.resources.database.values[i] \in ReservedSpellings

\* C12: is_default_policy is true exactly when the name holds "all" in any
\* mix of capitals or a database value is "default" or "information_schema"
\* in any mix of capitals; true for "all - database", true over database
\* "default", false for "finance_select" over "finance".
C12_BoilerplateRule ==
    pc = "select_done" =>
        /\ verdict.default = IsBoilerplate(hive_policy)
        /\ hive_policy = HiveAllDatabase => verdict.default
        /\ hive_policy = HiveDefaultDb => verdict.default
        /\ hive_policy = HiveFinanceSelect => ~verdict.default

\* C12 witness: a policy found boilerplate by a database value alone
C12_Witness ==
    /\ pc = "select_done"
    /\ verdict.default
    /\ \A i \in DOMAIN hive_policy.name : hive_policy.name[i] \notin SpellingsWithAll

\* the policy of the catalogue that was handed to clone_hive_policy
Original == CHOOSE p \in FnCatalogue : p.id = hive_policy.id

IdentityFields == {"id", "guid", "version"}

\* C13: the clone's policyItems equal the source's, id, guid and version are
\* absent from it, only resources, name and description differ from the
\* source, and the source is left as it was.
C13_CloneFrame ==
    pc = "clone_done" =>
        /\ hive_policy = Original
        /\ clone_result.policyItems = Original.policyItems
        /\ DOMAIN clone_result \cap IdentityFields = {}
        /\ DOMAIN clone_result = (DOMAIN Original \ IdentityFields) \cup {"name", "description"}
        /\ \A k \in DOMAIN Original \ (IdentityFields \cup {"resources", "name", "description"}) :
               clone_result[k] = Original[k]
        /\ "resources" \in DOMAIN Original =>
               /\ DOMAIN clone_result.resources = DOMAIN Original.resources
               /\ \A k \in DOMAIN Original.resources \ {"database", "url"} :
                      clone_result.resources[k] = Original.resources[k]

\* C13 witness: a policy with identity fields, principals of all three kinds
\* and a database resource was cloned, and the clone's resources differ
C13_Witness ==
    /\ pc = "clone_done"
    /\ IdentityFields \subseteq DOMAIN hive_policy
    /\ \E j \in DOMAIN hive_policy.policyItems :
           /\ hive_policy.policyItems[j].users # <<>>
           /\ hive_policy.policyItems[j].groups # <<>>
           /\ hive_policy.policyItems[j].roles # <<>>
    /\ clone_result.resources # hive_policy.resources

\* the name holds the fragment key=...: key and "=" at the start of the name
\* or after a ","
HasFragment(name, key) ==
    \E i \in DOMAIN name :
        /\ name[i] = key
        /\ i < Len(name)
        /\ name[i + 1] = "="
        /\ (i = 1 \/ name[i - 1] = ",")

Contains(s, sub) ==
    \E i \in 1..(Len(s) - Len(sub) + 1) : SubSeq(s, i, i + Len(sub) - 1) = sub

ValuesIn(p, kind) ==
    IF "resources" \in DOMAIN p /\ kind \in DOMAIN p.resources
    THEN p.resources[kind].values ELSE <<>>

NameKey(kind) ==
    CASE kind = "table" -> "tbl"
      [] kind = "column" -> "col"
      [] kind = "udf" -> "udf"

\* the resource body keeps its values in the clone
BodyKept(kind) ==
    "resources" \in DOMAIN Original /\ kind \in DOMAIN Original.resources =>
        clone_result.resources[kind] = Original.resources[kind]

\* the fragment of a kind is in the name with all its values
FragmentWithValues(kind) ==
    Contains(clone_result.name,
             <<NameKey(kind), "=">> \o Join(ValuesIn(Original, kind), ","))

\* C14 as stated: a table, column or udf resource holding the single wildcard
\* gives no fragment to the derived name, the wildcard staying in the body,
\* and one holding other values gives its fragment.
C14_WildcardsDropped ==
    pc = "clone_done" =>
        \A kind \in {"table", "column", "udf"} :
            /\ BodyKept(kind)
            /\ HasFragment(clone_result.name, NameKey(kind))
                   <=> (ValuesIn(Original, kind) # <<>> /\ ValuesIn(Original, kind) # <<Star>>)

\* C14: a table or column resource holding the single wildcard gives no
\* fragment to the derived name; a udf resource gives udf=<values> whenever it
\* has values, the single wildcard included; the body keeps the values, and a
\* fragment holds all the values of its resource.
C14_WildcardsInName ==
    pc = "clone_done" =>
        /\ \A kind \in {"table", "column"} :
               HasFragment(clone_result.name, NameKey(kind))
                   <=> (ValuesIn(Original, kind) # <<>> /\ ValuesIn(Original, kind) # <<Star>>)
        /\ HasFragment(clone_result.name, "udf") <=> ValuesIn(Original, "udf") # <<>>
        /\ \A kind \in {"table", "column", "udf"} :
               /\ BodyKept(kind)
               /\ HasFragment(clone_result.name, NameKey(kind)) => FragmentWithValues(kind)

\* C14 witness: a clone of a policy with the single wildcard as table and as
\* udf: no tbl fragment, a udf fragment
C14_Witness ==
    /\ pc = "clone_done"
    /\ ValuesIn(hive_policy, "table") = <<Star>>
    /\ ValuesIn(hive_policy, "udf") = <<Star>>
    /\ ~HasFragment(clone_result.name, "tbl")
    /\ HasFragment(clone_result.name, "udf")

\* the legacy shape hdfs://<host>/data/<root>/<layer>/hive/<container> in a
\* url, read off the url split at "/"
LegacyAt(url) == {k \in DOMAIN Split(url, "/") : ShapeAt(Split(url, "/"), k, "hdfs", 1)}

HasLegacyShape(url) == LegacyAt(url) # {}

LegacyParts(url) ==
    LET segs == Split(url, "/")
        k    == CHOOSE i \in LegacyAt(url) : \A j \in LegacyAt(url) : i <= j
    IN  [root |-> segs[k + 4], layer |-> segs[k + 5], container |-> FirstWord(segs[k + 7])]

OfsUrl(namespace, root, layer, container) ==
    <<"ofs", ":", "/", "/">> \o namespace \o <<"/">> \o root \o <<"/">> \o layer
        \o <<"/", "hive", "/">> \o container

\* the scheme and prefix substitution of a url outside the legacy shape
BestEffort(url) ==
    Replace(Replace(Strip(url), <<"hdfs", ":", "/", "/">>,
                    <<"ofs", ":", "/", "/">> \o OzoneServiceId \o <<"/">>),
            <<"/", "data", "/">>, <<"/">>)

\* C15: a url of the legacy shape is rewritten to
\* ofs://<namespace>/<root>/<layer>/hive/<container>; any other url is carried
\* into the clone by the scheme and prefix substitution, with a warning; the
\* clone has one url per source url, in the source's order.
C15_UrlRewrite ==
    pc = "clone_done" =>
        LET src == ValuesIn(Original, "url")
            out == ValuesIn(clone_result, "url")
        IN  /\ Len(out) = Len(src)
            /\ \A i \in DOMAIN src :
                   IF HasLegacyShape(src[i])
                   THEN /\ out[i] = OfsUrl(OzoneServiceId, LegacyParts(src[i]).root,
                                           LegacyParts(src[i]).layer,
                                           LegacyParts(src[i]).container)
                        /\ Strip(src[i]) \notin Range(verdict.warnings)
                   ELSE /\ out[i] = BestEffort(src[i])
                        /\ out[i] # <<>>
                        /\ Strip(src[i]) \in Range(verdict.warnings)
            /\ Len(verdict.warnings) = Cardinality({i \in DOMAIN src : ~HasLegacyShape(src[i])})

\* C15 witness: a clone of a policy with a url outside the legacy shape before
\* one in it
C15_Witness ==
    /\ pc = "clone_done"
    /\ Len(ValuesIn(hive_policy, "url")) = 2
    /\ ~HasLegacyShape(ValuesIn(hive_policy, "url")[1])
    /\ HasLegacyShape(ValuesIn(hive_policy, "url")[2])
    /\ ValuesIn(clone_result, "url")[1] # ValuesIn(hive_policy, "url")[1]
    /\ Len(verdict.warnings) = 1

(***************************************************************************)
(* The functions of one path, each called on its own                       *)
(***************************************************************************)
\* the directory names of the generated paths; <<>> is an empty segment ("//")
SegmentNames == {<<"data">>, <<"ns">>, <<"fid1">>, <<"raw">>, <<>>}

SegmentLists == UNION {[1..n -> SegmentNames] : n \in 0..MaxSegments}

\* a path: an optional leading separator, segments, an optional trailing one
GeneratedPaths ==
    {lead \o Join(segs, "/") \o trail :
        lead \in {<<>>, <<"/">>}, segs \in SegmentLists, trail \in {<<>>, <<"/">>}}

ExamplePaths ==
    {Path(<< <<"ns">>, <<"fid1">> >>),
     Path(<< <<"ns">>, <<"fid1">>, <<"raw">> >>),
     Path(<< <<"ns">>, <<"fid1">>, <<"raw">>, <<"k1">> >>),
     Path(<< <<"ns">>, <<"fid7">>, <<"raw">>, <<"x">> >>),
     Path(<< <<"data">>, <<"fid7">>, <<"raw">>, <<"x">> >>),
     Path(<< <<"data">>, <<"fid7">> >>) \o <<"/", "/">>}

PathInit ==
    /\ StoreIdle
    /\ pc = "path_start"
    /\ src_path \in GeneratedPaths \cup ExamplePaths
    /\ path_result = <<>>
    /\ hive_policy = <<>>
    /\ verdict = <<>>
    /\ clone_result = <<>>
    /\ HiveIdle
    /\ hashSeed = 0
    /\ hdfs_accesses = <<>>
    /\ posix_perms = <<>>
    /\ ozone_accesses = <<>>
    /\ posix_accesses = <<>>
    /\ fid = <<>>
    /\ hdfs_policies = <<>>
    /\ ozone_policies = <<>>
    /\ prev_ozone_policies = <<>>
    /\ config = <<>>
    /\ world = <<>>
    /\ include_fids = <<>>
    /\ exclude_fids = <<>>
    /\ acl_fallback_enabled = FALSE
    /\ fids_to_process = <<>>
    /\ fid_index = 0
    /\ all_ozone_policies = <<>>
    /\ converted_ozone_policies = <<>>
    /\ fb = <<>>
    /\ events = <<>>

\* the list of categorize_hdfs_policies a policy lands in
LevelOf(policy) ==
    LET r == categorize_hdfs_policies(<<policy>>)
    IN  IF r.volume_policies # <<>> THEN "volume"
        ELSE IF r.bucket_policies # <<>> THEN "bucket"
        ELSE IF r.key_policies # <<>> THEN "key"
        ELSE "none"

\* categorize_hdfs_policies on a policy with the one path
Classify ==
    /\ pc = "path_start"
    /\ path_result' = [level |-> LevelOf(HdfsPolicy(1, <<"p">>, <<src_path>>, <<>>))]
    /\ pc' = "classify_done"
    /\ UNCHANGED storeVars
    /\ UNCHANGED <<src_path, hive_policy, verdict, clone_result>>
    /\ UNCHANGED hashSeed
    /\ UNCHANGED permVars
    /\ UNCHANGED synthVars
    /\ UNCHANGED convVars
    /\ UNCHANGED hiveVars

\* extract_fid_from_path on the path
ExtractFid ==
    /\ pc = "path_start"
    /\ path_result' = [fid |-> extract_fid_from_path(src_path)]
    /\ pc' = "fid_done"
    /\ UNCHANGED storeVars
    /\ UNCHANGED <<src_path, hive_policy, verdict, clone_result>>
    /\ UNCHANGED hashSeed
    /\ UNCHANGED permVars
    /\ UNCHANGED synthVars
    /\ UNCHANGED convVars
    /\ UNCHANGED hiveVars

\* the root identifiers the paths are cut against
PathRoots == {<<"fid1">>, <<"fid7">>}

\* extract_bucket_and_key_from_path on the path, for one root identifier
ExtractBucketKey ==
    /\ pc = "path_start"
    /\ \E f \in PathRoots :
           LET r == extract_bucket_and_key_from_path(src_path, f)
           IN  path_result' = [root |-> f, bucket |-> r.bucket, key |-> r.key]
    /\ pc' = "bucket_key_done"
    /\ UNCHANGED storeVars
    /\ UNCHANGED <<src_path, hive_policy, verdict, clone_result>>
    /\ UNCHANGED hashSeed
    /\ UNCHANGED permVars
    /\ UNCHANGED synthVars
    /\ UNCHANGED convVars
    /\ UNCHANGED hiveVars

PathNext ==
    \/ Classify
    \/ ExtractFid
    \/ ExtractBucketKey

SpecPath == PathInit /\ [][PathNext]_vars

(***************************************************************************)
(* Claims about the functions of one path                                  *)
(***************************************************************************)
\* the path without its trailing separators
RECURSIVE Trimmed(_)
Trimmed(pth) ==
    IF pth # <<>> /\ pth[Len(pth)] = "/" THEN Trimmed(SubSeq(pth, 1, Len(pth) - 1)) ELSE pth

\* the number of segments "/" cuts a path into
SegmentCount(pth) == 1 + Cardinality({i \in DOMAIN pth : pth[i] = "/"})

\* C16: a path that, without its trailing separators, splits at "/" into 3
\* segments is classified ROOT (volume), into 4 CONTAINER (bucket), into 5 or
\* more LEAF (key); /ns/fid1 is ROOT, /ns/fid1/raw CONTAINER, /ns/fid1/raw/k1
\* LEAF.
C16_Classification ==
    pc = "classify_done" =>
        LET n == SegmentCount(Trimmed(src_path))
        IN  /\ n = 3 => path_result.level = "volume"
            /\ n = 4 => path_result.level = "bucket"
            /\ n >= 5 => path_result.level = "key"
            /\ n < 3 => path_result.level = "none"
            /\ src_path = <<"/", "ns", "/", "fid1">> => path_result.level = "volume"
            /\ src_path = <<"/", "ns", "/", "fid1", "/", "raw">> => path_result.level = "bucket"
            /\ src_path = <<"/", "ns", "/", "fid1", "/", "raw", "/", "k1">>
                   => path_result.level = "key"

\* C16 witness: a path with trailing separators classified by what is before them
C16_Witness ==
    /\ pc = "classify_done"
    /\ src_path = <<"/", "data", "/", "fid7", "/", "/">>
    /\ path_result.level = "volume"

\* the segments of a path as it is written: the first is empty when the path
\* starts with "/"
Segments(pth) == Split(pth, "/")

\* the path has the form /<namespace>/<root>/...
HasRootSegment(pth) ==
    /\ Len(Segments(pth)) >= 3
    /\ Segments(pth)[1] = <<>>
    /\ Segments(pth)[2] # <<>>
    /\ Segments(pth)[3] # <<>>

\* C17 as stated: extract_fid_from_path returns the third "/"-separated
\* segment of any path of the form /<namespace>/<root>/..., "fid7" for
\* /ns/fid7/raw/x, and none when the path has no such segment.
C17_ThirdSegment ==
    pc = "fid_done" =>
        /\ path_result.fid = IF HasRootSegment(src_path) THEN Segments(src_path)[3] ELSE <<>>
        /\ src_path = <<"/", "ns", "/", "fid7", "/", "raw", "/", "x">>
               => path_result.fid = <<"fid7">>

\* C17: extract_fid_from_path returns the third "/"-separated segment of a
\* path of the form /data/<root>/..., "fid7" for /data/fid7/raw/x, and none
\* for every other path, /ns/fid7/raw/x among them.
C17_ThirdSegmentUnderData ==
    pc = "fid_done" =>
        /\ path_result.fid =
               IF HasRootSegment(src_path) /\ Segments(src_path)[2] = <<"data">>
               THEN Segments(src_path)[3] ELSE <<>>
        /\ src_path = <<"/", "data", "/", "fid7", "/", "raw", "/", "x">>
               => path_result.fid = <<"fid7">>
        /\ src_path = <<"/", "ns", "/", "fid7", "/", "raw", "/", "x">>
               => path_result.fid = <<>>

\* C17 witness: the root identifier was taken from a path under /data
C17_Witness ==
    /\ pc = "fid_done"
    /\ src_path = <<"/", "data", "/", "fid7", "/", "raw", "/", "x">>
    /\ path_result.fid = <<"fid7">>

(***************************************************************************)
(* Claims about failures of the fallback and about the provider calls      *)
(***************************************************************************)
\* the events of the fallback of f: from its "fallback" event to the next
\* "convert" or "fallback" event
FallbackSpan(f) ==
    {i \in DOMAIN events :
        \E s \in EventsOf("fallback", f) :
            /\ s < i
            /\ \A j \in (s + 1)..i : events[j].op \notin {"convert", "fallback"}}

AuthFailed(f) == \E i \in FallbackSpan(f) : events[i].op = "kinit" /\ ~events[i].ok

\* the volume ACL of f could not be read, or gives nobody the read bit
NoAclData(f) ==
    \/ FidPath(f) \notin world.dirs
    \/ Get(world.facl, FidPath(f), <<>>) = <<>>
    \/ /\ parse_hdfs_facl(Get(world.facl, FidPath(f), <<>>)).users = <<>>
       /\ parse_hdfs_facl(Get(world.facl, FidPath(f), <<>>)).groups = <<>>

\* the target policies of one root identifier, in the order of the output
PoliciesOf(f) ==
    SelectSeq(converted_ozone_policies, LAMBDA p : p.resources.volume.values = <<f>>)

\* C18 as stated: a fid without source policies whose fallback gets no ACL
\* data, finds nobody with read or hits an authentication failure contributes
\* no target policy; the run goes on with the other fids, and every
\* translated fid has the policies its translation alone gives.
C18_FailureIsolation ==
    pc = "conv_done" =>
        \A f \in Range(fids_to_process) :
            /\ EventsOf("convert", f) # {} \/ EventsOf("fallback", f) # {}
            /\ EventsOf("fallback", f) # {} /\ (NoAclData(f) \/ AuthFailed(f))
                   => PoliciesOf(f) = <<>>
            /\ EventsOf("convert", f) # {}
                   => PoliciesOf(f) =
                          convert_hdfs_policies_for_fid(
                              f, get_hdfs_policies_for_fid(f, hdfs_policies), OzoneService)

ProviderCommands == {"test", "ls", "getfacl"}

\* the paths the fallback can ask the provider about
ProviderPaths ==
    world.dirs \cup DOMAIN world.facl \cup DOMAIN world.subdirs
        \cup {FidPath(f) : f \in Range(fids_to_process)}

\* C19: every provider command comes, within its call, right after a kinit
\* that succeeded (getfacl after the kinit of get_hdfs_facl, the kinit of
\* the nested hdfs_path_exists and its test); after a kinit that failed no
\* command is issued and the call returns false, the empty list or the empty
\* string; with kinit succeeding the result is what the filesystem holds,
\* whatever number of kinit runs came before.
C19_AuthBeforeProvider ==
    /\ \A i \in DOMAIN events :
          /\ events[i].op \in {"test", "ls"} => i > 1 /\ events[i - 1] = Kinit(TRUE)
          /\ events[i].op = "getfacl" =>
                 /\ i > 3
                 /\ events[i - 1] = Command("test", events[i].path)
                 /\ events[i - 2] = Kinit(TRUE)
                 /\ events[i - 3] = Kinit(TRUE)
          /\ events[i] = Kinit(FALSE) /\ i < Len(events) =>
                 events[i + 1].op \notin ProviderCommands
    /\ config.KEYTAB_PATH /\ config.PRINCIPAL =>
          \A path \in ProviderPaths :
              /\ hdfs_path_exists(path, FALSE) = [result |-> FALSE, calls |-> <<Kinit(FALSE)>>]
              /\ get_hdfs_subdirs(path, FALSE) = [result |-> <<>>, calls |-> <<Kinit(FALSE)>>]
              /\ get_hdfs_facl(path, FALSE, FALSE) = [result |-> <<>>, calls |-> <<Kinit(FALSE)>>]
              /\ get_hdfs_facl(path, TRUE, FALSE) =
                     [result |-> <<>>, calls |-> <<Kinit(TRUE), Kinit(FALSE)>>]
              /\ hdfs_path_exists(path, TRUE).result = (path \in world.dirs)
              /\ get_hdfs_facl(path, TRUE, TRUE).result =
                     IF path \in world.dirs THEN Get(world.facl, path, <<>>) ELSE <<>>

\* a run where one call read an ACL after its kinit runs, a later call listed
\* the subdirectories, and a third had its kinit fail
C19_Witness ==
    /\ pc = "conv_done"
    /\ \E i, j, k \in DOMAIN events :
          /\ events[i].op = "getfacl"
          /\ events[j].op = "ls"
          /\ events[k] = Kinit(FALSE)
          /\ i < j /\ j < k

\* a target policy with a name, a volume, and items that each name a
\* principal and grant an access
Complete(p) ==
    /\ "name" \in DOMAIN p /\ p.name # <<>>
    /\ "resources" \in DOMAIN p
    /\ HasValues(p.resources, "volume") /\ p.resources.volume.values # <<>>
    /\ "policyItems" \in DOMAIN p /\ p.policyItems # <<>>
    /\ \A item \in Range(p.policyItems) :
          /\ Get(item, "users", <<>>) \o Get(item, "groups", <<>>)
                 \o Get(item, "roles", <<>>) # <<>>
          /\ Get(item, "accesses", <<>>) # <<>>

\* C20 as stated: every target policy that convert_hdfs_policies_for_fid or
\* the fallback emits is complete: it has a name, a volume resource and a
\* non-empty list of items, each with a principal and an access grant.
C20_NoPartialPolicy ==
    \A p \in Range(ozone_policies) \cup Range(all_ozone_policies)
                 \cup Range(converted_ozone_policies) :
        Complete(p)

(***************************************************************************)
(* Claims about the resources of the target policies                       *)
(***************************************************************************)
\* every target policy the model holds: the output of one synthesis, and the
\* policies convert_all_hdfs_policies collected and returned
TargetPolicies ==
    Range(ozone_policies) \cup Range(all_ozone_policies) \cup Range(converted_ozone_policies)

ValuesOf(p, kind) == IF HasValues(p.resources, kind) THEN p.resources[kind].values ELSE <<>>

Answers ==
    {<<"yes">>, <<"y">>, <<"YES">>, <<"Y">>, <<"Yes">>, <<"no">>, <<"NO">>, <<>>,
     <<"yes", " ">>, <<"ok">>}

\* a prompt that takes every answer but "no" for consent
Confirmed_notno(answer) == LowerSeq(answer) # <<"no">>

\* response.lower() in ['yes', 'y']
Confirmed(answer) == LowerSeq(answer) \in {<<"yes">>, <<"y">>}

\* the outcome of one request: an HTTP status, or an exception of requests
StoreStatuses == {"200", "204", "500", "exception"}

Shown(policies) == [op |-> "display", target |-> policies, status |-> ""]
Asked(what) == [op |-> "prompt", target |-> what, status |-> ""]
Request(op, target, status) == [op |-> op, target |-> target, status |-> status]

\* an import_policy that sends the policy again after a failure
import_policy_retry(policy, status) ==
    [result |-> status = "200",
     calls  |-> IF status = "200" THEN <<Request("post", policy, status)>>
                ELSE <<Request("post", policy, status), Request("post", policy, status)>>]

\* lines 140-169: one POST; true on status 200 only
import_policy(policy, status) ==
    [result |-> status = "200", calls |-> <<Request("post", policy, status)>>]

\* lines 211-236: one DELETE; true on status 204 only
delete_policy(policy_id, status) ==
    [result |-> status = "204", calls |-> <<Request("delete", policy_id, status)>>]

\* policy.get('id'), and "if not policy_id"
PolicyId(policy) == Get(policy, "id", 0)

\* a to-delete policy that lost its id
HiveNoId ==
    [name |-> <<"hr", "_", "select">>, service |-> "cm_hive", isEnabled |-> TRUE,
     resources |-> [database |-> Resource(<< <<"hr">> >>), table |-> Resource(<<Star>>),
                    column |-> Resource(<<Star>>)],
     policyItems |-> <<Item(<<"dave">>, <<>>, <<>>, <<"select">>)>>]

StoreHiveCatalogue == {HiveAll, HiveSales, HiveUrl, HiveNoId}

StoreIncludes == {<<>>, << <<"sales">> >>}

\* the clones and the converted policies main can have put on its import list
ClonedChoices ==
    {create_cloned_hive_policies(l, OzonePrefix, OzoneServiceId) :
        l \in ListsOver({HiveSales, HiveWallet}, MaxPolicies - 1)}

ConvertedChoices ==
    {<<>>} \cup {convert_hdfs_policies_for_fid(fid2, l, OzoneService) :
                    l \in {<<PolRoot>>, <<PolLeaf>>}}

ImportLists == {cloned \o converted : cloned \in ClonedChoices, converted \in ConvertedChoices}

StoreInit ==
    /\ pc = "main_start"
    /\ hashSeed = 0
    /\ action \in {"cleanup", "import"}
    /\ IF action = "cleanup"
       THEN /\ hive_policies \in ListsOver(StoreHiveCatalogue, MaxPolicies) \ {<<>>}
            /\ include_databases \in StoreIncludes
            /\ all_policies_to_import = <<>>
       ELSE /\ hive_policies = <<>>
            /\ include_databases = <<>>
            /\ all_policies_to_import \in ImportLists
    /\ response = <<>>
    /\ results = [success |-> 0, failed |-> 0]
    /\ loop_index = 0
    /\ store_log = <<>>
    /\ exclude_databases = <<>>
    /\ policies_to_delete = <<>>
    /\ policies_to_keep = <<>>
    /\ filtered_hive_policies = <<>>
    /\ cloned_hive_policies = <<>>
    /\ FnIdle
    /\ hdfs_accesses = <<>>
    /\ posix_perms = <<>>
    /\ ozone_accesses = <<>>
    /\ posix_accesses = <<>>
    /\ fid = <<>>
    /\ hdfs_policies = <<>>
    /\ ozone_policies = <<>>
    /\ prev_ozone_policies = <<>>
    /\ config = <<>>
    /\ world = <<>>
    /\ include_fids = <<>>
    /\ exclude_fids = <<>>
    /\ acl_fallback_enabled = FALSE
    /\ fids_to_process = <<>>
    /\ fid_index = 0
    /\ all_ozone_policies = <<>>
    /\ converted_ozone_policies = <<>>
    /\ fb = <<>>
    /\ events = <<>>

StoreFrame ==
    /\ UNCHANGED <<hashSeed, hive_policies, include_databases, exclude_databases,
                   filtered_hive_policies, cloned_hive_policies>>
    /\ UNCHANGED permVars
    /\ UNCHANGED synthVars
    /\ UNCHANGED convVars
    /\ UNCHANGED fnVars

\* lines 1454-1520: the cleanup action of main up to the answer to its prompt
MainCleanup ==
    /\ pc = "main_start"
    /\ action = "cleanup"
    /\ LET r == get_policies_for_cleanup(hive_policies, include_databases)
       IN  /\ policies_to_delete' = r.policies_to_delete
           /\ policies_to_keep' = r.policies_to_keep
           /\ IF r.policies_to_delete = <<>>
              THEN /\ pc' = "main_done"
                   /\ UNCHANGED <<response, store_log>>
              ELSE \E answer \in Answers :
                       /\ response' = answer
                       /\ store_log' = <<Shown(r.policies_to_delete), Asked("delete")>>
                       /\ pc' = IF Confirmed(answer) THEN "cleanup_loop" ELSE "main_done"
    /\ UNCHANGED <<action, all_policies_to_import, results, loop_index>>
    /\ StoreFrame

\* lines 296-309: one round of the loop of cleanup_hive_policies
CleanupStep ==
    /\ pc = "cleanup_loop"
    /\ loop_index < Len(policies_to_delete)
    /\ LET policy    == policies_to_delete[loop_index + 1]
           policy_id == PolicyId(policy)
       IN  IF policy_id = 0
           THEN /\ results' = [results EXCEPT !.failed = @ + 1]
                /\ UNCHANGED store_log
           ELSE \E status \in StoreStatuses :
                    LET deleted == delete_policy(policy_id, status)
                    IN  /\ store_log' = store_log \o deleted.calls
                        /\ results' = IF deleted.result
                                      THEN [results EXCEPT !.success = @ + 1]
                                      ELSE [results EXCEPT !.failed = @ + 1]
    /\ loop_index' = loop_index + 1
    /\ UNCHANGED <<pc, action, response, all_policies_to_import,
                   policies_to_delete, policies_to_keep>>
    /\ StoreFrame

\* lines 316-317 and 1511-1513: the loop is over, main prints the results
CleanupReturn ==
    /\ pc = "cleanup_loop"
    /\ loop_index = Len(policies_to_delete)
    /\ pc' = "main_done"
    /\ UNCHANGED <<action, response, all_policies_to_import, results, loop_index, store_log,
                   policies_to_delete, policies_to_keep>>
    /\ StoreFrame

\* lines 1595-1612: the import action of main up to the answer to its prompt
MainImport ==
    /\ pc = "main_start"
    /\ action = "import"
    /\ IF all_policies_to_import = <<>>
       THEN /\ pc' = "main_done"
            /\ UNCHANGED <<response, store_log>>
       ELSE \E answer \in Answers :
                /\ response' = answer
                /\ store_log' = <<Shown(all_policies_to_import), Asked("import")>>
                /\ pc' = IF Confirmed(answer) THEN "import_loop" ELSE "main_done"
    /\ UNCHANGED <<action, all_policies_to_import, results, loop_index,
                   policies_to_delete, policies_to_keep>>
    /\ StoreFrame

\* lines 178-182: one round of the loop of import_policies
ImportStep ==
    /\ pc = "import_loop"
    /\ loop_index < Len(all_policies_to_import)
    /\ \E status \in StoreStatuses :
           LET imported == import_policy(all_policies_to_import[loop_index + 1], status)
           IN  /\ store_log' = store_log \o imported.calls
               /\ results' = IF imported.result
                             THEN [results EXCEPT !.success = @ + 1]
                             ELSE [results EXCEPT !.failed = @ + 1]
    /\ loop_index' = loop_index + 1
    /\ UNCHANGED <<pc, action, response, all_policies_to_import,
                   policies_to_delete, policies_to_keep>>
    /\ StoreFrame

\* lines 190-191 and 1603-1605
ImportReturn ==
    /\ pc = "import_loop"
    /\ loop_index = Len(all_policies_to_import)
    /\ pc' = "main_done"
    /\ UNCHANGED <<action, response, all_policies_to_import, results, loop_index, store_log,
                   policies_to_delete, policies_to_keep>>
    /\ StoreFrame

StoreNext ==
    \/ MainCleanup
    \/ CleanupStep
    \/ CleanupReturn
    \/ MainImport
    \/ ImportStep
    \/ ImportReturn

SpecStore == StoreInit /\ [][StoreNext]_vars

(***************************************************************************)
(* Claims about the calls sent to the Policy Store                         *)
(***************************************************************************)
Posts == SelectSeq(store_log, LAMBDA e : e.op = "post")

Deletes == SelectSeq(store_log, LAMBDA e : e.op = "delete")

\* C22: import_policies sends each policy of its list once, in list order,
\* whatever the outcome of the requests before it; success counts the
\* requests answered with status 200, failed the others, and on return the
\* two add up to the length of the list.
C22_ImportOnce ==
    action = "import" /\ pc \in {"import_loop", "main_done"} /\ Confirmed(response) =>
        /\ Len(Posts) = loop_index
        /\ \A i \in 1..loop_index : Posts[i].target = all_policies_to_import[i]
        /\ results.success = Cardinality({i \in DOMAIN Posts : Posts[i].status = "200"})
        /\ results.failed = Cardinality({i \in DOMAIN Posts : Posts[i].status # "200"})
        /\ pc = "main_done" =>
               /\ loop_index = Len(all_policies_to_import)
               /\ results.success + results.failed = Len(all_policies_to_import)

\* an import of three policies or more where a request that failed was
\* followed by one that the store accepted
C22_Witness ==
    /\ action = "import"
    /\ pc = "main_done"
    /\ Len(all_policies_to_import) >= 3
    /\ \E i, j \in DOMAIN Posts :
          i < j /\ Posts[i].status \in {"500", "exception"} /\ Posts[j].status = "200"

\* the operator typed yes or y, in small or capital letters and nothing else
SaidYes == response \in {<<"yes">>, <<"y">>, <<"YES">>, <<"Y">>, <<"Yes">>}

HasId(policy) == "id" \in DOMAIN policy /\ policy.id # 0

\* C30: a DELETE reaches the store only in the cleanup action and a POST only
\* in the import action, and only after the affected policies were shown,
\* the prompt was issued and the operator answered 'yes' or 'y' in any
\* case; after any other answer the run ends with no request; a to-delete
\* policy without an id is counted as failed and no DELETE is sent for it.
C30_ConfirmedWrites ==
    /\ Deletes # <<>> \/ Posts # <<>> =>
          /\ SaidYes
          /\ store_log[1].op = "display" /\ store_log[2].op = "prompt"
          /\ \A i \in 3..Len(store_log) : store_log[i].op \in {"post", "delete"}
    /\ Deletes # <<>> =>
          /\ action = "cleanup" /\ Posts = <<>>
          /\ store_log[1].target = policies_to_delete
          /\ \A i \in DOMAIN Deletes :
                 \E policy \in Range(policies_to_delete) :
                     HasId(policy) /\ Deletes[i].target = policy.id
    /\ Posts # <<>> =>
          /\ action = "import" /\ Deletes = <<>>
          /\ store_log[1].target = all_policies_to_import
    /\ pc = "main_done" /\ ~SaidYes =>
          /\ Deletes = <<>> /\ Posts = <<>>
          /\ results = [success |-> 0, failed |-> 0]
    /\ pc = "main_done" /\ action = "cleanup" /\ SaidYes =>
          LET with_id == SelectSeq(policies_to_delete, HasId)
          IN  /\ Len(Deletes) = Len(with_id)
              /\ \A i \in DOMAIN Deletes : Deletes[i].target = with_id[i].id
              /\ results.success =
                     Cardinality({i \in DOMAIN Deletes : Deletes[i].status = "204"})
              /\ results.failed = Len(policies_to_delete) - results.success

\* a confirmed cleanup that sent a DELETE and skipped a policy without an id,
\* the answer typed in capitals
C30_Witness ==
    /\ pc = "main_done"
    /\ action = "cleanup"
    /\ response \in {<<"YES">>, <<"Y">>}
    /\ Deletes # <<>>
    /\ \E policy \in Range(policies_to_delete) : ~HasId(policy)
    /\ results.failed >= 1

(***************************************************************************)
(* Claims about policies with paths of several depths                      *)
(***************************************************************************)
\* the level one path implies by itself
LevelOfPath(pth) == LevelOfPaths(<<pth>>)

LevelList(level) ==
    CASE level = "volume" -> categorize_hdfs_policies(hdfs_policies).volume_policies
      [] level = "bucket" -> categorize_hdfs_policies(hdfs_policies).bucket_policies
      [] level = "key"    -> categorize_hdfs_policies(hdfs_policies).key_policies

\* C23 as stated: a policy is placed in the list of every level that one of
\* its paths implies, whatever the order of its paths, and every path of
\* LEAF depth under the root that a policy declares gets a LEAF policy.
C23_EveryLevel ==
    SynthDone =>
        \A i \in DOMAIN hdfs_policies :
            \A pth \in Range(PathValues(hdfs_policies[i])) :
                /\ LevelOfPath(pth) # "none" =>
                       hdfs_policies[i] \in Range(LevelList(LevelOfPath(pth)))
                /\ LevelOfPath(pth) = "key" /\ NamesContainer(pth) =>
                       \E k \in KeyPolicies :
                           ScopedTo(ozone_policies[k], Parts(pth)[4], LeafOf(pth))

(***************************************************************************)
(* Claims about extract_bucket_and_key_from_path                           *)
(***************************************************************************)
\* the path, without its trailing separators, has the form
\* /<namespace>/<root>/<bucket>[/...] for the root the function was given
UnderGivenRoot ==
    LET segs == Segments(Trimmed(src_path))
    IN  /\ Len(segs) >= 4
        /\ segs[1] = <<>>
        /\ segs[2] # <<>>
        /\ segs[3] = path_result.root
        /\ segs[4] # <<>>

\* what follows the bucket segment
RestAfterBucket ==
    LET s    == Trimmed(src_path)
        segs == Segments(s)
        n    == 1 + Len(segs[2]) + 1 + Len(segs[3]) + 1 + Len(segs[4]) + 1
    IN  SubSeq(s, n + 1, Len(s))

\* C24 as stated: for a path /<namespace>/<root>/<bucket>/<rest> the function
\* returns the bucket and the rest; when the path ends at the bucket segment,
\* with or without a trailing separator, it returns the bucket with "*".
C24_BucketAndLeaf ==
    pc = "bucket_key_done" /\ UnderGivenRoot =>
        /\ path_result.bucket = Segments(Trimmed(src_path))[4]
        /\ path_result.key = IF RestAfterBucket = <<>> THEN <<"*">> ELSE RestAfterBucket

(***************************************************************************)
(* Claims about the isolation of root identifiers                          *)
(***************************************************************************)
\* the path lies under /data/<f>, f being the whole third segment
RootedAt(pth, f) ==
    /\ Len(Parts(pth)) >= 3
    /\ Parts(pth)[1] = <<>>
    /\ Parts(pth)[2] = <<"data">>
    /\ Parts(pth)[3] = f

\* the source policies that declare a path whose root identifier is exactly f
OwnPolicies(f) ==
    SelectSeq(hdfs_policies,
              LAMBDA policy : \E pth \in Range(PathValues(policy)) : RootedAt(pth, f))

\* C25 as stated: the target policies of a root identifier are those its own
\* source policies give, a policy under another root identifier (fid20 next
\* to fid2) adding nothing to them; and an identifier with no source policy
\* of its own goes through the ACL fallback when the fallback is enabled.
C25_RootIsolation ==
    pc = "conv_done" =>
        \A f \in Range(fids_to_process) :
            /\ OwnPolicies(f) # <<>> =>
                   PoliciesOf(f) = convert_hdfs_policies_for_fid(f, OwnPolicies(f), OzoneService)
            /\ OwnPolicies(f) = <<>> /\ is_hdfs_acl_fallback_enabled =>
                   EventsOf("fallback", f) # {}

(***************************************************************************)
(* Claims about the policies of the ACL fallback                           *)
(***************************************************************************)
\* the value of the "# owner:" or "# group:" line of a getfacl listing
HeaderValue(facl, what) ==
    LET lines == SelectSeq(facl, LAMBDA l : Len(l) >= 5 /\ SubSeq(l, 1, 5) = Header(what, <<>>))
    IN  IF lines = <<>> THEN <<>> ELSE SubSeq(lines[1], 6, Len(lines[1]))

\* the "user" or "group" entries of a listing as (name, bits), the unnamed
\* entry under the name of the owner or of the primary group
AclEntries(facl, kind) ==
    {[name |-> IF Split(l, ":")[2] # <<>> THEN Split(l, ":")[2]
               ELSE HeaderValue(facl, IF kind = "user" THEN "owner" ELSE "group"),
      bits |-> Split(l, ":")[3]] :
        l \in {e \in Range(facl) : Len(Split(e, ":")) >= 3 /\ Split(e, ":")[1] = <<kind>>}}

\* the principals of a kind whose entry carries the read bit
Readers(facl, kind) ==
    {e.name : e \in {x \in AclEntries(facl, kind) : "r" \in Range(x.bits) /\ x.name # <<>>}}

NoRepeat(s) == \A i, j \in DOMAIN s : s[i] = s[j] => i = j

\* one item, granting read only, to exactly these users and groups
ReadOnlyItemFor(p, users, groups) ==
    /\ Len(p.policyItems) = 1
    /\ p.policyItems[1].accesses = <<[type |-> "read", isAllowed |-> TRUE]>>
    /\ Range(p.policyItems[1].users) = users /\ NoRepeat(p.policyItems[1].users)
    /\ Range(p.policyItems[1].groups) = groups /\ NoRepeat(p.policyItems[1].groups)
    /\ p.policyItems[1].roles = <<>>

\* the child directories the fallback of f got from its listing call
Enumerated(f) ==
    IF \E i \in FallbackSpan(f) : events[i].op = "ls"
    THEN SelectSeq(Get(world.subdirs, FidPath(f), <<>>), LAMBDA d : d # <<>>)
    ELSE <<>>

\* C26: when the fallback of f contributes, its first policy is the ROOT
\* policy: volume f, one item granting read only to exactly the users and
\* groups whose entry in the ACL of /data/f carries the read bit (the unnamed
\* entry standing for the owner / the primary group); with no child directory
\* enumerated that is the whole result, otherwise the second policy is the one
\* CONTAINER policy, naming every enumerated child, with the same users and
\* groups.
C26_FallbackRootContainer ==
    pc = "conv_done" =>
        \A f \in Range(fids_to_process) :
            EventsOf("from_acls", f) # {} =>
                LET facl     == world.facl[FidPath(f)]
                    users    == Readers(facl, "user")
                    groups   == Readers(facl, "group")
                    produced == PoliciesOf(f)
                    nokey    == SelectSeq(produced, LAMBDA p : "key" \notin DOMAIN p.resources)
                IN  /\ users # {} \/ groups # {}
                    /\ DOMAIN produced[1].resources = {"volume"}
                    /\ ReadOnlyItemFor(produced[1], users, groups)
                    /\ IF Enumerated(f) = <<>>
                       THEN produced = <<produced[1]>>
                       ELSE /\ Len(nokey) = 2
                            /\ DOMAIN produced[2].resources = {"volume", "bucket"}
                            /\ produced[2].resources.volume.values = <<f>>
                            /\ produced[2].resources.bucket.values = Enumerated(f)
                            /\ ReadOnlyItemFor(produced[2], users, groups)
                            /\ produced[2].policyItems = produced[1].policyItems

\* a fallback over a directory with a named reader, the owner and the primary
\* group reading, and two children
C26_Witness ==
    /\ pc = "conv_done"
    /\ EventsOf("from_acls", fid2) # {}
    /\ Len(PoliciesOf(fid2)) >= 2
    /\ PoliciesOf(fid2)[1].policyItems[1].users = << <<"alice">>, <<"bob">> >>
    /\ PoliciesOf(fid2)[1].policyItems[1].groups = << <<"eng">> >>
    /\ PoliciesOf(fid2)[2].resources.bucket.values = <<raw, work>>

\* the grants the bits of one ACL entry stand for
PosixGrants(bits) ==
    LET has(b) == b \in Range(bits)
        grant(t) == <<[type |-> t, isAllowed |-> TRUE]>>
    IN  (IF has("r") THEN grant("read") ELSE <<>>)
        \o (IF has("w") THEN grant("write") ELSE <<>>)
        \o (IF has("r") /\ has("x") THEN grant("list") ELSE <<>>)
        \o (IF has("w") /\ has("x") THEN grant("create") \o grant("delete") ELSE <<>>)

\* the entries of a kind that name somebody and translate to a grant
Productive(facl, kind) ==
    {e \in AclEntries(facl, kind) : e.name # <<>> /\ PosixGrants(e.bits) # <<>>}

BucketPath(f, bucket) == FidPath(f) \o <<"/">> \o bucket

\* the ACL listing the fallback of f fetched for a bucket, empty if it got none
Fetched(f, bucket) ==
    IF \E i \in FallbackSpan(f) :
           events[i].op = "getfacl" /\ events[i].path = BucketPath(f, bucket)
    THEN Get(world.facl, BucketPath(f, bucket), <<>>)
    ELSE <<>>

\* the LEAF policies the fallback of f produced for a bucket
LeafPoliciesOf(f, bucket) ==
    SelectSeq(PoliciesOf(f),
              LAMBDA p : "key" \in DOMAIN p.resources /\ p.resources.bucket.values = <<bucket>>)

\* the items are one per principal with a productive entry, each holding the
\* one principal, no role and the grants of an entry of that principal
ItemsPerPrincipal(items, facl) ==
    /\ \A i \in DOMAIN items :
          /\ items[i].roles = <<>>
          /\ Len(items[i].users) + Len(items[i].groups) = 1
          /\ items[i].accesses # <<>>
          /\ items[i].users # <<>> =>
                 \E e \in Productive(facl, "user") :
                     items[i].users = <<e.name>> /\ items[i].accesses = PosixGrants(e.bits)
          /\ items[i].groups # <<>> =>
                 \E e \in Productive(facl, "group") :
                     items[i].groups = <<e.name>> /\ items[i].accesses = PosixGrants(e.bits)
    /\ \A i, j \in DOMAIN items :
          items[i].users = items[j].users /\ items[i].groups = items[j].groups => i = j
    /\ \A e \in Productive(facl, "user") : \E i \in DOMAIN items : items[i].users = <<e.name>>
    /\ \A e \in Productive(facl, "group") : \E i \in DOMAIN items : items[i].groups = <<e.name>>

\* C27: for every enumerated bucket whose ACL was fetched the fallback emits
\* one LEAF policy (volume f, that bucket, key "*", recursive) with one item
\* per user or group of the ACL, never coalesced: one principal, no role, the
\* grants its entry's bits translate to; an entry translating to nothing
\* gives no item, no principal has two items, and a bucket left without an
\* item, or whose ACL was not fetched, gets no LEAF policy.  Group svc with
\* r-x on bucket managed gets a LEAF policy granting svc read and list.
C27_FallbackLeaf ==
    pc = "conv_done" =>
        \A f \in Range(fids_to_process) :
            EventsOf("from_acls", f) # {} =>
                /\ \A b \in Range(Enumerated(f)) :
                       LET facl   == Fetched(f, b)
                           leaves == LeafPoliciesOf(f, b)
                       IN  IF Productive(facl, "user") \cup Productive(facl, "group") = {}
                           THEN leaves = <<>>
                           ELSE /\ Len(leaves) = 1
                                /\ leaves[1].resources.volume.values = <<f>>
                                /\ leaves[1].resources.key = [values |-> << <<"*">> >>,
                                                              isRecursive |-> TRUE]
                                /\ ItemsPerPrincipal(leaves[1].policyItems, facl)
                /\ \A p \in Range(PoliciesOf(f)) :
                       "key" \in DOMAIN p.resources =>
                           \E b \in Range(Enumerated(f)) : p.resources.bucket.values = <<b>>
                /\ f = fid9 /\ LeafPoliciesOf(f, managed) # <<>> =>
                       LeafPoliciesOf(f, managed)[1].policyItems =
                           <<[users |-> <<>>, groups |-> << <<"svc">> >>, roles |-> <<>>,
                              accesses |-> <<[type |-> "read", isAllowed |-> TRUE],
                                             [type |-> "list", isAllowed |-> TRUE]>>]>>

\* a run whose fallback produced the LEAF policy of the scenario for fid9
\* and, for fid2, a LEAF policy with an item for the owner and one for the
\* group, while an entry without grants and a second entry of the owner gave
\* no item and the bucket without a listing got no policy
C27_Witness ==
    /\ pc = "conv_done"
    /\ EventsOf("from_acls", fid9) # {}
    /\ Len(LeafPoliciesOf(fid9, managed)) = 1
    /\ EventsOf("from_acls", fid2) # {}
    /\ Len(LeafPoliciesOf(fid2, raw)) = 1
    /\ Len(LeafPoliciesOf(fid2, raw)[1].policyItems) = 2
    /\ LeafPoliciesOf(fid2, work) = <<>>

(***************************************************************************)
(* The databases file and the include list of the cleanup                  *)
(***************************************************************************)
\* lines 55-81: the items of a file, a list of lines; a file that cannot be
\* opened gives the empty list
load_list_from_file(file) ==
    IF ~file.exists THEN <<>>
    ELSE LET stripped == [i \in DOMAIN file.lines |-> Strip(file.lines[i])]
             lines    == SelectSeq(stripped, LAMBDA l : l # <<>> /\ l[1] # "#")
             combined == Join(lines, " ")
             pieces   == Split(combined, ",")
             items    == [i \in DOMAIN pieces |-> Strip(pieces[i])]
         IN  SelectSeq(items, LAMBDA item : item # <<>>)

MissingFile == [exists |-> FALSE, lines |-> <<>>]

FileOf(lines) == [exists |-> TRUE, lines |-> lines]

\* databases files: missing, empty, comments and blanks only, separators
\* only, and two files that name databases
DatabasesFiles ==
    {MissingFile,
     FileOf(<< <<>> >>),
     FileOf(<< <<"#", " ", "databases">>, <<" ">>, <<>> >>),
     FileOf(<< <<",", " ", ",">> >>),
     FileOf(<< <<"sales">>, <<>> >>),
     FileOf(<< <<"Finance", ",">>, <<"#", "sales">>, <<" ", "wallet", " ">> >>)}

\* the policies of the export that are neither boilerplate nor url-bearing
Deletable == SelectSeq(hive_policies, LAMBDA p : ~IsBoilerplate(p) /\ ~UrlBearing(p))

\* C28: with an empty include list get_policies_for_cleanup puts every policy
\* that is neither boilerplate nor url-bearing in the to-delete list and the
\* others in the to-keep list; a databases file that is missing, empty or
\* holds no name loads as the empty list and gives that same listing.
C28_EmptyIncludeList ==
    pc = "hive_cleanup_listed" =>
        /\ include_databases = <<>> =>
               /\ policies_to_delete = Deletable
               /\ policies_to_keep =
                      SelectSeq(hive_policies, LAMBDA p : IsBoilerplate(p) \/ UrlBearing(p))
        /\ \A file \in DatabasesFiles :
               \/ /\ \E i \in DOMAIN file.lines : \E j \in DOMAIN file.lines[i] :
                         file.lines[i][j] \in {"sales", "wallet"}
                  /\ load_list_from_file(file) # <<>>
               \/ /\ load_list_from_file(file) = <<>>
                  /\ get_policies_for_cleanup(hive_policies, load_list_from_file(file))
                         .policies_to_delete = Deletable

\* a listing made with an empty include list that deletes a policy an
\* include list would have kept, and keeps another
C28_Witness ==
    /\ pc = "hive_cleanup_listed"
    /\ include_databases = <<>>
    /\ HiveFinance \in Range(policies_to_delete)
    /\ HiveSales \in Range(policies_to_delete)
    /\ policies_to_keep # <<>>

(***************************************************************************)
(* The allowed flag of the source accesses                                 *)
(***************************************************************************)
\* the source accesses whose isAllowed is false
Denied == {i \in DOMAIN hdfs_accesses : ~hdfs_accesses[i].isAllowed}

DeniedKinds == {hdfs_accesses[i].type : i \in Denied}

\* C29: convert_permissions_hdfs_to_ozone counts a source access as present
\* whatever its isAllowed value, and every access it emits has isAllowed true,
\* those emitted for a source access with isAllowed false included; the items
\* of a key policy carry these accesses.
C29_AllowedFlagIgnored ==
    pc = "perm_done" =>
        /\ \A i \in DOMAIN ozone_accesses : ozone_accesses[i].isAllowed = TRUE
        /\ \A i \in DOMAIN hdfs_accesses :
               hdfs_accesses[i].type \in {"read", "write"} =>
                   [type |-> hdfs_accesses[i].type, isAllowed |-> TRUE] \in Range(ozone_accesses)
        /\ {"read", "execute"} \subseteq Types(hdfs_accesses) =>
               [type |-> "list", isAllowed |-> TRUE] \in Range(ozone_accesses)
        /\ {"write", "execute"} \subseteq Types(hdfs_accesses) =>
               /\ [type |-> "create", isAllowed |-> TRUE] \in Range(ozone_accesses)
               /\ [type |-> "delete", isAllowed |-> TRUE] \in Range(ozone_accesses)
        /\ ozone_accesses =
               [i \in DOMAIN ozone_accesses |-> [type |-> ozone_accesses[i].type, isAllowed |-> TRUE]]
        /\ LET item == [accesses |-> hdfs_accesses, users |-> << <<"bob">> >>,
                        groups |-> <<>>, roles |-> <<>>, delegateAdmin |-> FALSE]
               made == ConvertItems(<<item>>)
           IN  /\ Len(made) = 1
               /\ made[1].users = << <<"bob">> >>
               /\ Types(made[1].accesses) = Types(ozone_accesses)
               /\ \A i \in DOMAIN made[1].accesses : made[1].accesses[i].isAllowed = TRUE

\* a denied write next to a denied execute and an allowed read: write, create
\* and delete come out allowed
C29_Witness ==
    /\ pc = "perm_done"
    /\ DeniedKinds = {"write", "execute"}
    /\ Types(hdfs_accesses) = {"read", "write", "execute"}
    /\ {Grant("write"), Grant("create"), Grant("delete"), Grant("list")} \subseteq Range(ozone_accesses)

====
